---- MODULE Spec2Model ----
(***************************************************************************)
(* A model of pgmock's user-space TCP (src/src/protocols/arp.ts, second    *)
(* half: class Tcp and class TcpSocket).                                   *)
(*                                                                         *)
(* Byte buffers are modelled by what slice() does to them: a buffer is a   *)
(* window [buf, off, len] onto a named source of bytes, so that two        *)
(* windows are equal exactly when they hold the same bytes of the same     *)
(* write (or of the peer's stream).                                        *)
(***************************************************************************)
EXTENDS Integers, Sequences, FiniteSets, TLC

\* ------------------------------------------------------------------ bounds
\* User write() calls per behaviour.
MaxWrites == 2
\* Packets held in _receivedPacketsUnacknowledged before inbound frames stop.
MaxQueue == 2
\* Pure ACKs lying in _sentPacketsUnacknowledged before new ones stop being sent.
MaxAcks == 2
\* Turns of a retransmission closure that Spec follows (SpecGiveUp follows all).
MaxTurns == 1
\* Entries of the router's address table before registrations stop.
MaxAddresses == 3
\* Calls of startCapture before new ones stop being made.
MaxCaptures == 1
\* Calls of icmp.ping before new ones stop being made.
MaxPings == 2
\* The callbacks of one operation of the adapter make at most 2^MaxStepsLog
\* calls and returns.
MaxStepsLog == 8
\* Bytes of the longest sequence a checksum is computed of.
MaxBytes == 4

\* ------------------------------------------------------- program constants
\* for (let i = 0; i < data.length; i += 1200)
MSS == 1200
\* for (let i = 1; i <= 10; i++)
MaxTries == 10

\* ------------------------------------------------------------------ inputs
LocalIp == "192.168.13.37"
RemoteIp == "192.168.0.1"
LocalPort == "12400"
RemotePort == "5432"
\* A second port of the peer, and the callbacks users pass to tcp.listen().
OtherPort == "5433"
ListenerCallbacks == {1, 2}
\* Values the constructor's random draw may give (multiples of 100).
InitialSeqs == {100, 300}
\* The peer's initial sequence number and the byte stream it writes, cut into
\* segments of fixed boundaries: segment k holds bytes
\* PeerCuts[k] .. PeerCuts[k+1]-1 of the stream.
PeerIsns == {40}
PeerCuts == <<0, 3, 5, 9>>
\* Lengths of the buffers users pass to write().
WriteLens == {0, 100, 2500}
SmallWriteLens == {5}

Min(a, b) == IF a <= b THEN a ELSE b

\* ----------------------------------------------------------------- buffers
\* new Uint8Array(0)
Empty == [buf |-> <<"", 0>>, off |-> 0, len |-> 0]

\* Uint8Array.prototype.slice(i, j) for 0 <= i, 0 <= j.
Slice(d, i, j) ==
  LET a == Min(i, d.len)
      b == Min(j, d.len)
  IN IF b <= a THEN Empty ELSE [buf |-> d.buf, off |-> d.off + a, len |-> b - a]

\* The peer's stream bytes from..to-1.
PeerData(from, to) == Slice([buf |-> <<"peer", 0>>, off |-> 0, len |-> PeerCuts[Len(PeerCuts)]], from, to)

\* ----------------------------------------------------------------- packets
\* type TcpPacket; id stands for the object's identity (0: a decoded inbound
\* packet, which is never looked up by identity).
TcpPacket(id, srcIp, destIp, srcPort, destPort, seq, ack, flags, data) ==
  [id |-> id, srcIp |-> srcIp, destIp |-> destIp, srcPort |-> srcPort,
   destPort |-> destPort, seq |-> seq, ack |-> ack, flags |-> flags, data |-> data]

NoPacket == TcpPacket(0, "", "", "", "", 0, 0, {}, Empty)

\* What a handler did, in order: packets handed to onSendPacketCallback,
\* user callbacks invoked, an Error thrown.
Evt(k, pkt) == [k |-> k, pkt |-> pkt]
SendEvts(evts) == SelectSeq(evts, LAMBDA e: e.k = "send")
Kinds(evts) == [n \in 1..Len(evts) |-> evts[n].k]

\* A connection string that leaves the ports out.
connectionStringNoPorts(srcIp, destIp, srcPort, destPort) ==
  <<srcIp, "", "->", destIp, "">>

\* function connectionString(srcIp, destIp, srcPort, destPort)
connectionString(srcIp, destIp, srcPort, destPort) ==
  <<srcIp, srcPort, "->", destIp, destPort>>

\* ------------------------------------------------------------------ socket
\* new TcpSocket(isServer, srcIp, destIp, srcPort, destPort), _seq drawn as iss
\* (kept in iss, which nothing reads but the properties).
\* tasks: the async closures of _sendPacket waiting in wait(timeout), each with
\* its packet, its loop counter i and the number tx of times it has handed the
\* packet to onSendPacketCallback; tick: the setTimeout(.., 0) of
\* _onEstablishedCallback is posted; out: what the running handler did so far;
\* err: the running handler threw.
NewTcpSocket(isServer, srcIp, destIp, srcPort, destPort, iss) ==
  [isServer |-> isServer, srcIp |-> srcIp, destIp |-> destIp,
   srcPort |-> srcPort, destPort |-> destPort,
   state |-> "INIT", iss |-> iss, seq |-> iss, ack |-> 0,
   sentUnacked |-> <<>>, recvQueue |-> <<>>, writeOnce |-> <<>>,
   tasks |-> {}, tick |-> FALSE, out |-> <<>>, err |-> FALSE]

\* get connectionString()
SocketConnectionString(s) == connectionString(s.srcIp, s.destIp, s.srcPort, s.destPort)

Throw(s) == [s EXCEPT !.err = TRUE, !.out = Append(@, Evt("throw", NoPacket))]

\* An identity no live packet object of the socket has.
FreshId(s) ==
  LET used == {s.sentUnacked[n].id : n \in 1..Len(s.sentUnacked)} \cup {t.pkt.id : t \in s.tasks}
  IN CHOOSE n \in 1..(Cardinality(used) + 1) : n \notin used

\* tcpPacket.data.length === 0 && !tcpPacket.flags.syn && !tcpPacket.flags.fin
NoAckExpected(tcpPacket) ==
  tcpPacket.data.len = 0 /\ "syn" \notin tcpPacket.flags /\ "fin" \notin tcpPacket.flags

\* _sendPacket(seqIncrement, packet): seq advances, the packet joins the
\* unacked list, and the closure runs up to its first await: try 1 is sent.
\* The closure of a packet that expects no ack returns after that wait
\* without reading or writing anything, so it is not kept among the tasks.
SendPacket(s, seqIncrement, seq, ack, flags, data) ==
  LET tcpPacket == TcpPacket(FreshId(s), s.srcIp, s.destIp, s.srcPort, s.destPort,
                             seq, ack, flags, data)
  IN [s EXCEPT !.seq = @ + seqIncrement,
               !.sentUnacked = Append(@, tcpPacket),
               !.tasks = IF NoAckExpected(tcpPacket) THEN @
                         ELSE @ \cup {[pkt |-> tcpPacket, i |-> 1, tx |-> 1]},
               !.out = Append(@, Evt("send", tcpPacket))]

\* close()
CloseSocket(s) == [s EXCEPT !.state = "CLOSED", !.out = Append(@, Evt("close", NoPacket))]

\* A _writeSinglePacket that leaves seq where it was.
WriteSinglePacketSeqKept(s, data) ==
  IF s.state # "ESTABLISHED" THEN Throw(s)
  ELSE SendPacket(s, 0, s.seq, s.ack, {"ack"}, data)

\* _writeSinglePacket(data)
WriteSinglePacket(s, data) ==
  IF s.state # "ESTABLISHED" THEN Throw(s)
  ELSE SendPacket(s, data.len, s.seq, s.ack, {"ack"}, data)

\* The loop of write(): for (let i = 0; i < data.length; i += 1200)
RECURSIVE WriteLoop(_, _, _)
WriteLoop(s, data, i) ==
  IF i < data.len /\ ~s.err
  THEN WriteLoop(WriteSinglePacket(s, Slice(data, i, i + MSS)), data, i + MSS)
  ELSE s

\* A write that sends in whatever state the socket is.
WriteDataUnbuffered(s, data) == SendPacket(s, data.len, s.seq, s.ack, {"ack"}, data)

\* write(data)
WriteData(s, data) ==
  IF s.state # "ESTABLISHED" THEN [s EXCEPT !.writeOnce = Append(@, data)]
  ELSE WriteLoop(s, data, 0)

\* for (const data of spliced) this.write(data)
RECURSIVE WriteEach(_, _, _)
WriteEach(s, spliced, n) ==
  IF n <= Len(spliced) /\ ~s.err
  THEN WriteEach(WriteData(s, spliced[n]), spliced, n + 1)
  ELSE s

\* An _onEstablishedCallback that reads the queue without emptying it.
OnEstablishedCallbackKeeps(s) ==
  LET s1 == [WriteEach(s, s.writeOnce, 1) EXCEPT !.writeOnce = s.writeOnce]
  IN IF s1.err THEN s1 ELSE [s1 EXCEPT !.out = Append(@, Evt("established", NoPacket))]

\* An _onEstablishedCallback that runs the user's callbacks first.
OnEstablishedCallbackFirst(s) ==
  WriteEach([s EXCEPT !.writeOnce = <<>>, !.out = Append(@, Evt("established", NoPacket))],
            s.writeOnce, 1)

\* _onEstablishedCallback(): the buffered writes, then the user's callbacks.
OnEstablishedCallback(s) ==
  LET s1 == WriteEach([s EXCEPT !.writeOnce = <<>>], s.writeOnce, 1)
  IN IF s1.err THEN s1 ELSE [s1 EXCEPT !.out = Append(@, Evt("established", NoPacket))]

\* listen() of handlerPrivateMethods
SocketListen(s) ==
  IF s.state # "INIT" THEN Throw(s)
  ELSE IF ~s.isServer THEN Throw(s)
  ELSE [s EXCEPT !.state = "LISTEN"]

\* connect() of handlerPrivateMethods
SocketConnect(s) ==
  IF s.state # "INIT" THEN Throw(s)
  ELSE IF s.isServer THEN Throw(s)
  ELSE SendPacket([s EXCEPT !.state = "SYN_SENT"], 1, s.seq, 0, {"syn"}, Empty)

\* A filter that keeps the packets whose last byte is just below the ack number.
StillUnackedAtAck(packet, peerAck) == packet.seq + packet.data.len >= peerAck

\* this._sentPacketsUnacknowledged.filter(packet => packet.seq + packet.data.length > tcpPacket.ack)
StillUnacked(packet, peerAck) == packet.seq + packet.data.len > peerAck

\* A filter that takes only the first acknowledged packet off the list.
AckFilterFirst(sentUnacked, peerAck) ==
  IF \E n \in 1..Len(sentUnacked) : ~StillUnacked(sentUnacked[n], peerAck)
  THEN LET first == CHOOSE n \in 1..Len(sentUnacked) :
                      /\ ~StillUnacked(sentUnacked[n], peerAck)
                      /\ \A m \in 1..(n - 1) : StillUnacked(sentUnacked[m], peerAck)
       IN SubSeq(sentUnacked, 1, first - 1) \o SubSeq(sentUnacked, first + 1, Len(sentUnacked))
  ELSE sentUnacked

AckFilter(sentUnacked, peerAck) ==
  SelectSeq(sentUnacked, LAMBDA packet: StillUnacked(packet, peerAck))

\* A find() that takes the packets at or ahead of the ack number instead.
DeliverableAhead(packet, ack) == packet.seq >= ack

\* this._receivedPacketsUnacknowledged.find(packet => packet.seq <= this._ack)
Deliverable(packet, ack) == packet.seq <= ack

FindDeliverable(queue, ack) ==
  IF \E n \in 1..Len(queue) : Deliverable(queue[n], ack)
  THEN CHOOSE n \in 1..Len(queue) :
         /\ Deliverable(queue[n], ack)
         /\ \A m \in 1..(n - 1) : ~Deliverable(queue[m], ack)
  ELSE 0

RemoveAt(queue, n) == SubSeq(queue, 1, n - 1) \o SubSeq(queue, n + 1, Len(queue))

\* A loop body that takes no packet for a retransmission.
NeverRetransmission(packet, ack) == FALSE

\* packet.seq < this._ack: a retransmission, acknowledged again, not delivered
IsRetransmission(packet, ack) == packet.seq < ack

\* A loop body that marks every packet it takes for an ACK.
TakePacketAlwaysAck(s, packet, must) ==
  IF IsRetransmission(packet, s.ack)
  THEN [s |-> s, must |-> TRUE]
  ELSE LET s1 == [s EXCEPT !.ack = @ + packet.data.len]
       IN IF packet.data.len > 0
          THEN [s |-> [s1 EXCEPT !.out = Append(@, Evt("data", packet))], must |-> TRUE]
          ELSE [s |-> s1, must |-> TRUE]

\* One packet taken from the queue: [s, must] after the loop body.
TakePacket(s, packet, must) ==
  IF IsRetransmission(packet, s.ack)
  THEN [s |-> s, must |-> TRUE]
  ELSE LET s1 == [s EXCEPT !.ack = @ + packet.data.len]
       IN IF packet.data.len > 0
          THEN [s |-> [s1 EXCEPT !.out = Append(@, Evt("data", packet))], must |-> TRUE]
          ELSE [s |-> s1, must |-> must]

\* while (true) { find; if (!packet) break; filter; ... }
RECURSIVE DrainQueue(_, _)
DrainQueue(s, must) ==
  LET n == FindDeliverable(s.recvQueue, s.ack)
  IN IF n = 0 THEN [s |-> s, must |-> must]
     ELSE LET r == TakePacket([s EXCEPT !.recvQueue = RemoveAt(@, n)], s.recvQueue[n], must)
          IN DrainQueue(r.s, r.must)

\* case "ESTABLISHED" of process()
ProcessEstablished(s, tcpPacket) ==
  IF Len(s.writeOnce) > 0 THEN Throw(s)
  ELSE LET r == DrainQueue([s EXCEPT !.recvQueue = Append(@, tcpPacket)], FALSE)
       IN IF r.must THEN SendPacket(r.s, 0, r.s.seq, r.s.ack, {"ack"}, Empty)
          ELSE r.s

\* A LISTEN case that answers whatever packet arrives.
ProcessListenAnyPacket(s, tcpPacket) ==
  LET s1 == [s EXCEPT !.state = "SYN_RECEIVED", !.ack = tcpPacket.seq + 1]
  IN SendPacket(s1, 1, s1.seq, s1.ack, {"syn", "ack"}, Empty)

\* case "LISTEN" of process()
ProcessListen(s, tcpPacket) ==
  IF "syn" \in tcpPacket.flags
  THEN LET s1 == [s EXCEPT !.state = "SYN_RECEIVED", !.ack = tcpPacket.seq + 1]
       IN SendPacket(s1, 1, s1.seq, s1.ack, {"syn", "ack"}, Empty)
  ELSE s

\* A SYN_RECEIVED case that runs the established callbacks itself.
ProcessSynReceivedSync(s, tcpPacket) ==
  IF "ack" \in tcpPacket.flags
  THEN OnEstablishedCallback([s EXCEPT !.state = "ESTABLISHED"])
  ELSE s

\* case "SYN_RECEIVED" of process()
ProcessSynReceived(s, tcpPacket) ==
  IF "ack" \in tcpPacket.flags
  THEN [s EXCEPT !.state = "ESTABLISHED", !.tick = TRUE]
  ELSE s

\* A SYN_SENT case that takes the peer's seq itself as the ack number.
ProcessSynSentAckAtSeq(s, tcpPacket) ==
  IF "syn" \in tcpPacket.flags /\ "ack" \in tcpPacket.flags
  THEN LET s1 == [s EXCEPT !.state = "ESTABLISHED", !.ack = tcpPacket.seq]
           s2 == SendPacket(s1, 0, s1.seq, s1.ack, {"ack"}, Empty)
       IN [s2 EXCEPT !.tick = TRUE]
  ELSE s

\* case "SYN_SENT" of process()
ProcessSynSent(s, tcpPacket) ==
  IF "syn" \in tcpPacket.flags /\ "ack" \in tcpPacket.flags
  THEN LET s1 == [s EXCEPT !.state = "ESTABLISHED", !.ack = tcpPacket.seq + 1]
           s2 == SendPacket(s1, 0, s1.seq, s1.ack, {"ack"}, Empty)
       IN [s2 EXCEPT !.tick = TRUE]
  ELSE s

\* A process() that filters the unacknowledged list before it looks at FIN.
ProcessAckBeforeFin(s, tcpPacket) ==
  IF s.state = "INIT" THEN Throw(s)
  ELSE IF tcpPacket.srcIp = s.srcIp /\ tcpPacket.srcPort = s.srcPort THEN s
  ELSE IF tcpPacket.destIp # s.srcIp \/ tcpPacket.destPort # s.srcPort THEN Throw(s)
  ELSE LET s1 == IF "ack" \in tcpPacket.flags
                 THEN [s EXCEPT !.sentUnacked = AckFilter(@, tcpPacket.ack)]
                 ELSE s
       IN IF "fin" \in tcpPacket.flags THEN CloseSocket(s1)
          ELSE CASE s1.state = "LISTEN" -> ProcessListen(s1, tcpPacket)
                 [] s1.state = "SYN_RECEIVED" -> ProcessSynReceived(s1, tcpPacket)
                 [] s1.state = "SYN_SENT" -> ProcessSynSent(s1, tcpPacket)
                 [] s1.state = "ESTABLISHED" -> ProcessEstablished(s1, tcpPacket)
                 [] s1.state = "CLOSED" -> s1
                 [] OTHER -> Throw(s1)

\* process(tcpPacket) of handlerPrivateMethods
Process(s, tcpPacket) ==
  IF s.state = "INIT" THEN Throw(s)
  ELSE IF tcpPacket.srcIp = s.srcIp /\ tcpPacket.srcPort = s.srcPort THEN s
  ELSE IF tcpPacket.destIp # s.srcIp \/ tcpPacket.destPort # s.srcPort THEN Throw(s)
  ELSE IF "fin" \in tcpPacket.flags THEN CloseSocket(s)
  ELSE LET s1 == IF "ack" \in tcpPacket.flags
                 THEN [s EXCEPT !.sentUnacked = AckFilter(@, tcpPacket.ack)]
                 ELSE s
       IN CASE s1.state = "LISTEN" -> ProcessListen(s1, tcpPacket)
            [] s1.state = "SYN_RECEIVED" -> ProcessSynReceived(s1, tcpPacket)
            [] s1.state = "SYN_SENT" -> ProcessSynSent(s1, tcpPacket)
            [] s1.state = "ESTABLISHED" -> ProcessEstablished(s1, tcpPacket)
            [] s1.state = "CLOSED" -> s1
            [] OTHER -> Throw(s1)

\* this._sentPacketsUnacknowledged.includes(tcpPacket)
Includes(sentUnacked, tcpPacket) ==
  \E n \in 1..Len(sentUnacked) : sentUnacked[n].id = tcpPacket.id

\* A loop that ends one turn earlier.
LoopContinuesShort(i) == i + 1 < MaxTries

\* for (let i = 1; i <= 10; i++): does the loop take another turn after turn i
LoopContinues(i) == i + 1 <= MaxTries

\* The closure of _sendPacket resumed after await wait(timeout) in turn t.i:
\* it returns, or sends try t.i + 1 and waits again, or gives up and closes.
AfterWait(s, t) ==
  LET rest == [s EXCEPT !.tasks = @ \ {t}]
  IN IF NoAckExpected(t.pkt) THEN rest
     ELSE IF ~Includes(s.sentUnacked, t.pkt) THEN rest
     ELSE IF LoopContinues(t.i)
          THEN [rest EXCEPT !.tasks = @ \cup {[pkt |-> t.pkt, i |-> t.i + 1, tx |-> t.tx + 1]},
                            !.out = Append(@, Evt("send", t.pkt))]
          ELSE CloseSocket(rest)

\* ------------------------------------------------------------ the handler
\* tcpSockets, listeners: the maps of Tcp.createHandler (tcpSockets by
\* connection string, listeners by "ip:port" key, a listener's callback being
\* known by a number).
\* op, evt: the handler that ran last and what it did, in order.
\* delivered: every payload the onData callbacks were given so far.
\* nWrites: how many write() calls the user has made.
\* router: the Router of the network adapter, with its two tables.
\* returned: for each MAC, the device getOrRegisterDevice returned for it first,
\* rop: the operation of the router or of its DHCP responder that ran last,
\* with what it was given and what it gave back.
\* calc: the function of the byte helpers that was applied last, with what it
\* was given and what it gave back.
VARIABLES tcpSockets, listeners, op, evt, delivered, nWrites, router, rop, returned, adapter, aop,
          calc

vars == <<tcpSockets, listeners, op, evt, delivered, nWrites, router, rop, returned, adapter, aop, calc>>

tcpVars == <<tcpSockets, listeners, op, evt, delivered, nWrites>>
routerVars == <<router, rop, returned>>
adapterVars == <<adapter, aop>>
calcVars == <<calc>>

Op(name, pkt, data, i) == [name |-> name, pkt |-> pkt, data |-> data, i |-> i]

\* The socket as it is stored between handlers.
Settled(s) == [s EXCEPT !.out = <<>>, !.err = FALSE]

Put(sockets, key, s) == [k \in DOMAIN sockets \cup {key} |-> IF k = key THEN s ELSE sockets[k]]

\* Bounds of the model, on what a handler leaves behind.
Bounded(s) ==
  /\ Len(s.recvQueue) <= MaxQueue
  /\ Len(SelectSeq(s.sentUnacked, NoAckExpected)) <= MaxAcks

Payloads(evts) ==
  LET datas == SelectSeq(evts, LAMBDA e: e.k = "data")
  IN [n \in 1..Len(datas) |-> datas[n].pkt.data]

\* A handler ran on the socket under key and left it as s.
Ran(key, s) ==
  /\ Bounded(s)
  /\ tcpSockets' = Put(tcpSockets, key, Settled(s))
  /\ evt' = s.out
  /\ delivered' = delivered \o Payloads(s.out)

\* A handler threw before it touched any socket.
Threw ==
  /\ evt' = <<Evt("throw", NoPacket)>>
  /\ UNCHANGED <<tcpSockets, delivered>>

\* A registerSocket that never finds the connection string taken.
NeverTaken(socket) == FALSE

\* registerSocket(socket) finds the connection string taken
Taken(socket) == SocketConnectionString(socket) \in DOMAIN tcpSockets

\* ------------------------------------------------------------ addresses
\* An Ipv4Address is its four bytes; a MacAddress is known by its string.
\* A JavaScript number n that holds an address or what the allocation loop
\* adds up is the pair <<hi, lo>> with n = hi * 65536 + lo, 0 <= lo < 65536.
NumAdd(a, b) == <<a[1] + b[1] + (a[2] + b[2]) \div 65536, (a[2] + b[2]) % 65536>>
NumLess(a, b) == a[1] < b[1] \/ (a[1] = b[1] /\ a[2] < b[2])

\* Ipv4Address.toInt()
toInt(ip) == <<ip[1] * 256 + ip[2], ip[3] * 256 + ip[4]>>

\* Ipv4Address.fromInt(int); <<>> stands for the Error it throws
fromInt(int) ==
  IF int[1] < 0 \/ int[1] > 65535 THEN <<>>
  ELSE <<(int[1] \div 256) % 256, int[1] % 256, (int[2] \div 256) % 256, int[2] % 256>>

\* ToInt32, which JavaScript applies to the operands of ~, &, | and ^, and
\* which gives the sign of their results.
ToInt32(n) ==
  LET h == n[1] % 65536
  IN <<IF h >= 32768 THEN h - 65536 ELSE h, n[2]>>

\* The bits of two patterns of 4 and of 16 bits combined one by one; f is the
\* truth table.
Bitwise4(f, a, b) ==
  f[a % 2][b % 2] + 2 * f[(a \div 2) % 2][(b \div 2) % 2]
  + 4 * f[(a \div 4) % 2][(b \div 4) % 2] + 8 * f[(a \div 8) % 2][(b \div 8) % 2]

Bitwise16(f, a, b) ==
  Bitwise4(f, a % 16, b % 16) + 16 * Bitwise4(f, (a \div 16) % 16, (b \div 16) % 16)
  + 256 * Bitwise4(f, (a \div 256) % 16, (b \div 256) % 16)
  + 4096 * Bitwise4(f, (a \div 4096) % 16, (b \div 4096) % 16)

Bitwise32(f, a, b) ==
  ToInt32(<<Bitwise16(f, a[1] % 65536, b[1] % 65536), Bitwise16(f, a[2], b[2])>>)

\* a & b, a | b, a ^ b, ~a
JsAnd(a, b) == Bitwise32([x \in {0, 1} |-> [y \in {0, 1} |-> x * y]], a, b)
JsOr(a, b) == Bitwise32([x \in {0, 1} |-> [y \in {0, 1} |-> x + y - x * y]], a, b)
JsXor(a, b) == Bitwise32([x \in {0, 1} |-> [y \in {0, 1} |-> (x + y) % 2]], a, b)
JsNot(a) == <<-ToInt32(a)[1] - 1, 65535 - a[2]>>

\* Ipv4Address._fromSignedInt(signedInt): 0xffffffff + signedInt + 1
fromSignedInt(signedInt) ==
  fromInt(IF signedInt[1] < 0 THEN <<signedInt[1] + 65536, signedInt[2]>> ELSE signedInt)

\* bitNot(), bitAnd(other), bitOr(other), bitXor(other)
bitNot(ip) == fromSignedInt(JsAnd(JsNot(toInt(ip)), <<65535, 65535>>))
bitAnd(ip, other) == fromSignedInt(JsAnd(toInt(ip), toInt(other)))
bitOr(ip, other) == fromSignedInt(JsOr(toInt(ip), toInt(other)))
bitXor(ip, other) == fromSignedInt(JsXor(toInt(ip), toInt(other)))

ZeroAddress == <<0, 0, 0, 0>>
BroadcastAddress == <<255, 255, 255, 255>>

\* isRecipientOfTarget(targetAddress)
isRecipientOfTarget(ip, targetAddress) ==
  targetAddress = BroadcastAddress \/ targetAddress = ip

\* ------------------------------------------------------------------ router
\* type Device; id tells the objects apart (0 is the Router, which is a Device
\* itself), NoDevice stands for undefined.
Device(id, mac, ip, isConfirmed) ==
  [id |-> id, mac |-> mac, ip |-> ip, isConfirmed |-> isConfirmed]

NoDevice == Device(-1, "", <<>>, FALSE)

\* _registerDevice(device)
PrivateRegisterDevice(r, device) ==
  [r EXCEPT !.addressTable = Put(@, toInt(device.ip), device.mac),
            !.devices = Put(@, device.mac, device)]

\* new Router(options); made counts the objects registerDevice has constructed
NewRouter(options) ==
  PrivateRegisterDevice(
    [mac |-> options.mac, ip |-> options.ip, subnetMask |-> options.subnetMask,
     addressTable |-> <<>>, devices |-> <<>>, made |-> 0],
    Device(0, options.mac, options.ip, TRUE))

\* get subnet()
subnet(r) == bitAnd(r.subnetMask, r.ip)

\* An isIpAssigned that finds every address free.
isIpAssignedNever(r, ip) == FALSE

\* isIpAssigned(ip)
isIpAssigned(r, ip) == toInt(ip) \in DOMAIN r.addressTable

\* The loop of _getNextFreeIp() from curIpInt on, actualSubnet and
\* specialAddresses being what they are in every turn: the address it returns
\* (<<>> for null) and the number of turns it has taken.
RECURSIVE NextFreeIpLoop(_, _, _, _, _)
NextFreeIpLoop(r, actualSubnet, specialAddresses, curIpInt, turns) ==
  IF NumLess(<<65535, 65535>>, curIpInt) THEN [ip |-> <<>>, turns |-> turns]
  ELSE LET curIp == fromInt(curIpInt)
           subnetDifference == bitXor(actualSubnet, bitAnd(r.subnetMask, curIp))
       IN IF subnetDifference # ZeroAddress
          THEN NextFreeIpLoop(r, actualSubnet, specialAddresses,
                              NumAdd(curIpInt, toInt(subnetDifference)), turns + 1)
          ELSE IF curIp \notin specialAddresses /\ ~isIpAssigned(r, curIp)
               THEN [ip |-> curIp, turns |-> turns + 1]
               ELSE NextFreeIpLoop(r, actualSubnet, specialAddresses,
                                   NumAdd(curIpInt, <<0, 1>>), turns + 1)

\* A _getNextFreeIp without special addresses.
GetNextFreeIpNoSpecial(r) == NextFreeIpLoop(r, subnet(r), {}, <<0, 0>>, 0)

\* _getNextFreeIp()
GetNextFreeIp(r) ==
  LET allBitsZero == subnet(r)
      allBitsSet == bitOr(subnet(r), bitNot(r.subnetMask))
  IN NextFreeIpLoop(r, allBitsZero, {allBitsZero, allBitsSet}, <<0, 0>>, 0)

\* registerDevice(mac): the router afterwards and the device returned
registerDevice(r, mac) ==
  LET ip == GetNextFreeIp(r).ip
      device == Device(r.made + 1, mac, ip, FALSE)
  IN IF ip = <<>> THEN [r |-> r, device |-> NoDevice]
     ELSE [r |-> PrivateRegisterDevice([r EXCEPT !.made = @ + 1], device), device |-> device]

\* getDevice(mac)
getDevice(r, mac) == IF mac \in DOMAIN r.devices THEN r.devices[mac] ELSE NoDevice

\* getDevice(ip)
getDeviceByIp(r, ip) ==
  IF toInt(ip) \in DOMAIN r.addressTable
  THEN getDevice(r, r.addressTable[toInt(ip)])
  ELSE NoDevice

\* getOrRegisterDevice(mac)
getOrRegisterDevice(r, mac) ==
  LET device == getDevice(r, mac)
  IN IF device # NoDevice THEN [r |-> r, device |-> device] ELSE registerDevice(r, mac)

\* device.confirm(): the Router's does nothing, a registered device's sets
\* the flag of that object.
confirm(r, device) ==
  IF device.id = 0 THEN r
  ELSE [r EXCEPT !.devices =
          [m \in DOMAIN @ |-> IF @[m].id = device.id
                               THEN [@[m] EXCEPT !.isConfirmed = TRUE] ELSE @[m]]]

\* A DHCP frame as the handler reads and writes it.
DhcpFrame(srcIp, srcPort, destIp, destPort, operation, xid, clientHardwareAddress, yourIpAddress, options) ==
  [srcIp |-> srcIp, srcPort |-> srcPort, destIp |-> destIp, destPort |-> destPort,
   operation |-> operation, xid |-> xid, clientHardwareAddress |-> clientHardwareAddress,
   yourIpAddress |-> yourIpAddress, options |-> options]

NoFrame == DhcpFrame(<<>>, 0, <<>>, 0, 0, 0, "", <<>>, <<>>)

Option(code, data) == [code |-> code, data |-> data]

\* frame.options.find((option) => option.code === 53): its place, or 0
FindOption(options, code) ==
  IF \E n \in 1..Len(options) : options[n].code = code
  THEN CHOOSE n \in 1..Len(options) :
         options[n].code = code /\ \A m \in 1..(n - 1) : options[m].code # code
  ELSE 0

\* The options of the reply to a message of type dhcpMessageType.
ReplyOptions(r, dhcpMessageType) ==
  <<Option(53, <<IF dhcpMessageType = 1 THEN 2 ELSE 5>>),
    Option(1, r.subnetMask),
    Option(3, r.ip),
    Option(6, r.ip),
    Option(12, <<101, 109, 117, 108, 97, 116, 111, 114, 104, 111, 115, 116>>),
    Option(15, <<101, 109, 117, 108, 97, 116, 111, 114, 104, 111, 115, 116>>),
    Option(28, BroadcastAddress),
    Option(51, <<0, 1, 81, 128>>),
    Option(54, r.ip)>>

\* The callback DhcpImplementation gives to context.onProcessFrame: the router
\* afterwards, the device getOrRegisterDevice returned to it (NoDevice if it
\* was not called or returned undefined), the frames given to
\* context.sendFrame, and consumed.
Handled(r, device, sent, consumed) ==
  [r |-> r, device |-> device, sent |-> sent, consumed |-> consumed]

ProcessDhcp(r, frame) ==
  LET isRouterSource == r.ip = frame.srcIp
      isRouterDest == isRecipientOfTarget(r.ip, frame.destIp)
      n == FindOption(frame.options, 53)
      dhcpMessageType == frame.options[n].data[1]
      got == getOrRegisterDevice(r, frame.clientHardwareAddress)
      r1 == IF dhcpMessageType = 3 THEN confirm(got.r, got.device) ELSE got.r
      reply == DhcpFrame(r.ip, frame.destPort, got.device.ip, frame.srcPort, 2, frame.xid,
                         frame.clientHardwareAddress, got.device.ip,
                         ReplyOptions(r, dhcpMessageType))
  IN IF isRouterSource /\ frame.srcPort = 67 THEN Handled(r, NoDevice, <<>>, TRUE)
     ELSE IF ~isRouterDest \/ frame.destPort # 67 THEN Handled(r, NoDevice, <<>>, FALSE)
     ELSE IF n = 0 THEN Handled(r, NoDevice, <<>>, FALSE)
     ELSE IF dhcpMessageType \in {1, 3}
          THEN IF got.device = NoDevice THEN Handled(got.r, NoDevice, <<>>, TRUE)
               ELSE Handled(r1, got.device, <<reply>>, TRUE)
          ELSE Handled(r, NoDevice, <<>>, FALSE)

\* What NetworkAdapter's constructor gives to new Router().
RouterMac == "00:0c:13:37:42:69"
RouterAddress == <<192, 168, 13, 37>>
AdapterOptions == [mac |-> RouterMac, ip |-> RouterAddress, subnetMask |-> <<255, 255, 0, 0>>]

RouterOp(name, mac, frame, device, sent, consumed) ==
  [name |-> name, mac |-> mac, frame |-> frame, device |-> device, sent |-> sent,
   consumed |-> consumed]

\* --------------------------------------------------------------------- ARP
\* ArpData as the Arp protocol decodes it: hardware type 1 with addresses of
\* 6 bytes, protocol type 0x0800 with addresses of 4; a request has no
\* queriedMac ("").
ArpData(srcMac, destMac, operation, originMac, originIp, queriedMac, queriedIp) ==
  [srcMac |-> srcMac, destMac |-> destMac, hardwareType |-> 1, protocolType |-> 2048,
   hardwareSize |-> 6, protocolSize |-> 4, operation |-> operation,
   originMac |-> originMac, originIp |-> originIp,
   queriedMac |-> queriedMac, queriedIp |-> queriedIp]

\* MacAddress.BroadcastAddress
MacBroadcastAddress == "ff:ff:ff:ff:ff:ff"

\* MacAddress.isRecipientOfTarget(targetAddress)
macIsRecipientOfTarget(mac, targetAddress) ==
  targetAddress = MacBroadcastAddress \/ targetAddress = mac

\* The reply of the responder to frame for the device whose MAC is queriedMac.
ArpReply(r, frame, queriedMac) ==
  [frame EXCEPT !.operation = 2, !.srcMac = r.mac, !.destMac = frame.srcMac,
                !.queriedMac = queriedMac]

\* A responder that answers for the router alone.
ProcessArpRouterOnly(r, frame) ==
  IF r.mac = frame.srcMac THEN [sent |-> <<>>, consumed |-> TRUE]
  ELSE IF ~macIsRecipientOfTarget(r.mac, frame.destMac) THEN [sent |-> <<>>, consumed |-> FALSE]
  ELSE IF frame.hardwareType # 1 THEN [sent |-> <<>>, consumed |-> TRUE]
  ELSE IF frame.queriedIp = r.ip
       THEN [sent |-> <<ArpReply(r, frame, r.mac)>>, consumed |-> TRUE]
       ELSE [sent |-> <<>>, consumed |-> TRUE]

\* onProcessFrame of ArpImplementation: the frames it sends and its result
ProcessArp(r, frame) ==
  IF r.mac = frame.srcMac THEN [sent |-> <<>>, consumed |-> TRUE]
  ELSE IF ~macIsRecipientOfTarget(r.mac, frame.destMac) THEN [sent |-> <<>>, consumed |-> FALSE]
  ELSE IF frame.hardwareType # 1 THEN [sent |-> <<>>, consumed |-> TRUE]
  ELSE LET device == getDeviceByIp(r, frame.queriedIp)
       IN IF device # NoDevice
          THEN [sent |-> <<ArpReply(r, frame, device.mac)>>, consumed |-> TRUE]
          ELSE [sent |-> <<>>, consumed |-> TRUE]

\* ----------------------------------------------------------------- adapter
\* createProtocol(router): the subprotocols of each protocol, in the order of
\* Object.entries(protocol.options.protocols).
Layers ==
  {"ethernet", "arp", "routerArp", "ipv4", "icmp", "tcp", "udp", "dhcp", "routerDhcp", "ipv6"}

Protocols(protocol) ==
  CASE protocol = "ethernet" -> <<"arp", "ipv4", "ipv6">>
    [] protocol = "arp" -> <<"routerArp">>
    [] protocol = "ipv4" -> <<"icmp", "tcp", "udp">>
    [] protocol = "udp" -> <<"dhcp">>
    [] protocol = "dhcp" -> <<"routerDhcp">>
    [] OTHER -> <<>>

\* The protocol whose subprotocol protocol is; "adapter" for Ethernet.
ParentOf(protocol) ==
  IF \E p \in Layers : \E n \in 1..Len(Protocols(p)) : Protocols(p)[n] = protocol
  THEN CHOOSE p \in Layers : \E n \in 1..Len(Protocols(p)) : Protocols(p)[n] = protocol
  ELSE "adapter"

\* The protocols whose createHandler calls context.onSendData.
Senders == {"ethernet", "arp", "ipv4", "icmp", "udp", "dhcp"}

\* The four CallbackEventTargets of createHandlersRecursively.
TargetNames == {"processFrame", "processData", "sendFrame", "sendData"}

\* A callback of a target: the wrapper that emits processFrameTarget, the
\* callback a protocol gives to context.onProcessFrame (decoder) or to
\* context.onSendData (send), the listener of sendFrameTarget (forward), and
\* the listeners of onReceiveFrame (capture), told apart by id.
Listener(kind, layer, id) == [kind |-> kind, layer |-> layer, id |-> id]

\* target.addListener(callback)
AddListener(a, layer, name, listener) ==
  [a EXCEPT !.targets[<<layer, name>>] = Append(@, listener)]

\* context.onProcessFrame(callback) of the protocols below parent: the
\* adapter's _onReceiveCallbacks.push, or addListener on parent's
\* processDataTarget.
OnProcessFrame(a, parent, listener) ==
  IF parent = "adapter" THEN [a EXCEPT !.onReceiveCallbacks = Append(@, listener)]
  ELSE AddListener(a, parent, "processData", listener)

\* createHandlersRecursively(protocol, context) below parent, and the loop
\* over subProtocols from the n-th on.
RECURSIVE createHandlersRecursively(_, _, _)
RECURSIVE CreateSubHandlers(_, _, _)
CreateSubHandlers(a, protocol, n) ==
  IF n > Len(Protocols(protocol)) THEN a
  ELSE CreateSubHandlers(createHandlersRecursively(a, Protocols(protocol)[n], protocol),
                         protocol, n + 1)

createHandlersRecursively(a, protocol, parent) ==
  LET wrapped == OnProcessFrame(a, parent, Listener("wrapper", protocol, 0))
      forwarding == AddListener(wrapped, protocol, "sendFrame", Listener("forward", protocol, 0))
      withSubs == CreateSubHandlers(forwarding, protocol, 1)
      decoding == OnProcessFrame(withSubs, parent, Listener("decoder", protocol, 0))
  IN IF protocol \in Senders
     THEN AddListener(decoding, protocol, "sendData", Listener("send", protocol, 0))
     ELSE decoding

\* new NetworkAdapter(bus); captures counts the calls of startCapture,
\* outstandingPings is the Map of Icmp's handler (pingId -> the future its
\* resolve function settles) and pings are the futures ping() has returned.
NewNetworkAdapter ==
  createHandlersRecursively(
    [isDestroyed |-> FALSE, onReceiveCallbacks |-> <<>>,
     targets |-> [t \in Layers \X TargetNames |-> <<>>], captures |-> 0,
     outstandingPings |-> <<>>, pings |-> <<>>],
    "ethernet", "adapter")

\* ------------------------------------------------------------------ frames
\* A frame on the wire: its first len bytes are there; a complete frame has
\* 14 bytes before its payload.
Frame(len, destMac, srcMac, etherType, payload) ==
  [len |-> len, destMac |-> destMac, srcMac |-> srcMac, etherType |-> etherType,
   payload |-> payload]

\* A payload of len bytes that no protocol reads.
NoPayload == [kind |-> "none", len |-> 0]

EthernetData(destMac, srcMac, etherType, payload) ==
  [destMac |-> destMac, srcMac |-> srcMac, etherType |-> etherType, payload |-> payload]

\* bytes.slice(from, to).length of an array of len bytes
SliceLen(len, from, to) ==
  IF Min(to, len) > from THEN Min(to, len) - from ELSE 0

\* frame.slice(14) of a frame whose first len bytes are there
Truncated(payload, len) == [payload EXCEPT !.len = Min(@, IF len > 14 THEN len - 14 ELSE 0)]

\* The ARP payload of ArpData, as onSendData of Arp writes it, and one with
\* other sizes or fewer bytes.
ArpPayload(data) ==
  [kind |-> "arp", len |-> 8 + 2 * data.hardwareSize + 2 * data.protocolSize,
   hardwareType |-> data.hardwareType, protocolType |-> data.protocolType,
   hardwareSize |-> data.hardwareSize, protocolSize |-> data.protocolSize,
   operation |-> data.operation, originMac |-> data.originMac, originIp |-> data.originIp,
   queriedMac |-> data.queriedMac, queriedIp |-> data.queriedIp]

\* The IPv4 packet of Ipv4Data: header of 20 bytes, its checksum right, no
\* options, no fragment.
Ipv4Payload(data) ==
  [kind |-> "ipv4", len |-> 20 + data.payload.len, version |-> 4, checksumOk |-> TRUE,
   options |-> 0, fragment |-> FALSE, srcIp |-> data.srcIp, destIp |-> data.destIp,
   protocol |-> data.protocol, payload |-> data.payload]

Ipv4Data(srcIp, destIp, protocol, payload) ==
  [srcIp |-> srcIp, destIp |-> destIp, protocol |-> protocol, payload |-> payload]

\* IcmpData of an echo request or reply
IcmpData(srcIp, destIp, type, code, identifier, sequenceNumber, data) ==
  [srcIp |-> srcIp, destIp |-> destIp, type |-> type, code |-> code,
   identifier |-> identifier, sequenceNumber |-> sequenceNumber, data |-> data]

\* toBigEndianFromInt(2, int) read as an unsigned number; -1 stands for the
\* Error it throws
toBigEndianFromInt2(int) ==
  LET wrapped == IF int < 0 THEN 65536 + int ELSE int
  IN IF wrapped < 0 \/ wrapped >= 65536 THEN -1 ELSE wrapped

\* The ICMP message of 8 + data.len bytes: type, code, checksum, identifier
\* and sequence number of two bytes each, data.
IcmpBytes(type, code, checksumOk, identifier, sequenceNumber, data) ==
  [kind |-> "icmp", len |-> 8 + data.len, type |-> type, code |-> code,
   checksumOk |-> checksumOk, identifier |-> identifier,
   sequenceNumber |-> sequenceNumber, data |-> data]

\* pingId >> 16 and pingId & 0xffff of a 32-bit signed pingId
ShiftRight16(pingId) == pingId \div 65536
Low16(pingId) == pingId % 65536

\* identifier << 16 | sequenceNumber of two unsigned 16-bit numbers: a 32-bit
\* signed number
PingIdOf(identifier, sequenceNumber) ==
  (IF identifier >= 32768 THEN identifier - 65536 ELSE identifier) * 65536 + sequenceNumber

\* ------------------------------------------------------------ byte helpers
\* data.reduce(...) of internetChecksum from the n-th byte on: a byte at an
\* even index (the first has index 0) counts 256 times.
RECURSIVE SumBytes(_, _, _)
SumBytes(data, n, acc) ==
  IF n > Len(data) THEN acc
  ELSE SumBytes(data, n + 1, IF (n - 1) % 2 = 0 THEN acc + data[n] * 256 ELSE acc + data[n])

\* while (res > 0xffff) res = (res & 0xffff) + (res >> 16)
RECURSIVE FoldCarries(_)
FoldCarries(res) ==
  IF res > 65535 THEN FoldCarries((res % 65536) + (res \div 65536)) ELSE res

\* An internetChecksum that leaves the carries where they are.
internetChecksumNoFold(data) == SumBytes(data, 1, 0)

\* internetChecksum(data)
internetChecksum(data) == FoldCarries(SumBytes(data, 1, 0))

\* The two bytes the callers write for field = ~sum: field >> 8 & 0xff and
\* field & 0xff.
ComplementBytes(sum) == <<((-sum - 1) \div 256) % 256, (-sum - 1) % 256>>

\* A function was applied to input and gave output.
Applied(name, input, output) == [name |-> name, input |-> input, output |-> output]

InitCalc == calc = Applied("init", <<>>, <<>>)

\* ------------------------------------------------------------ frame processing
\* What an operation of the adapter has done so far: the adapter, the calls
\* it has made (a frame written to the bus, a frame given to onReceive, a
\* callback of a target returned) and whether an error is on its way to the
\* caller.
Run(a) == [a |-> a, trace |-> <<>>, raised |-> FALSE]
Raise(run) == [run EXCEPT !.raised = TRUE]
Logged(run, event) == [run EXCEPT !.trace = Append(@, event)]
BusEvent(frame) == [k |-> "bus", frame |-> frame]
OfferEvent(frame) == [k |-> "offer", frame |-> frame]
Returned(run, consumed) == [run |-> run, consumed |-> consumed]

\* The n-th callback of the target at, called in emission e, has returned.
HookEvent(at, e, n, listener, consumed) ==
  [k |-> "hook", at |-> at, e |-> e, n |-> n, listener |-> listener, consumed |-> consumed]

\* The callbacks of a target; <<"adapter", "processData">> stands for
\* _onReceiveCallbacks.
ListenersAt(a, at) == IF at[1] = "adapter" THEN a.onReceiveCallbacks ELSE a.targets[at]

\* The calls in progress of an operation of the adapter: what the operation
\* has done so far (run), what the call that returned last has returned
\* (consumed) and, innermost first, what each caller that waits for its
\* callee does next (stack). JavaScript runs the callbacks synchronously, one
\* inside the other; the stack holds the position of each of them.
Calls(run) == [run |-> run, consumed |-> FALSE, stack |-> <<>>]

\* target.emit(data) is at its n-th callback; e tells the emissions apart and
\* some is whether a callback before the n-th has returned consumed: true.
Emitting(at, e, n, some, data) ==
  [k |-> "emit", at |-> at, e |-> e, n |-> n, some |-> some, data |-> data]

\* A callback that returns consumed once the call it has made returns.
Returning(consumed) == [k |-> "return", consumed |-> consumed]

Push(m, f) == [m EXCEPT !.stack = <<f>> \o @]

\* return { consumed } of the call in progress
Return(m, consumed) == [m EXCEPT !.consumed = consumed]

\* throw: no caller of the adapter's callbacks catches, the Error ends every
\* call in progress and reaches the caller of the operation.
ThrowError(m) == [m EXCEPT !.run = Raise(@), !.stack = <<>>]

\* target.emit(data): the callbacks are called from the first on.
Emit(m, at, data) == Push(m, Emitting(at, Len(m.run.trace), 1, FALSE, data))

\* context.processData(data) of protocol, by a callback that returns
\* consumed: true after it
ProcessData(m, protocol, data) ==
  Emit(Push(m, Returning(TRUE)), <<protocol, "processData">>, data)

\* onReceive(data)
OnReceive(m, data) ==
  IF m.run.a.isDestroyed THEN ThrowError(m)
  ELSE Emit([m EXCEPT !.run = Logged(@, OfferEvent(data))], <<"adapter", "processData">>, data)

\* A send that gives the frame to onReceive only.
NetworkAdapterSendNoBus(m, data) ==
  IF m.run.a.isDestroyed THEN ThrowError(m)
  ELSE OnReceive(m, data)

\* send(data)
NetworkAdapterSend(m, data) ==
  IF m.run.a.isDestroyed THEN ThrowError(m)
  ELSE OnReceive([m EXCEPT !.run = Logged(@, BusEvent(data))], data)

\* context.sendFrame(frame) of protocol: the adapter's send for Ethernet,
\* sendDataTarget.emit of the protocol above for the others.
ContextSendFrame(m, protocol, frame) ==
  IF ParentOf(protocol) = "adapter" THEN NetworkAdapterSend(m, frame)
  ELSE Emit(Push(m, Returning(FALSE)), <<ParentOf(protocol), "sendData">>, frame)

\* onProcessFrame of Ethernet
DecodeEthernet(r, m, frame) ==
  IF SliceLen(frame.len, 0, 6) # 6 \/ SliceLen(frame.len, 6, 12) # 6 THEN ThrowError(m)
  ELSE LET vlanTag == CASE SliceLen(frame.len, 12, 14) = 2 -> frame.etherType
                        [] SliceLen(frame.len, 12, 14) = 1 -> frame.etherType \div 256
                        [] OTHER -> 0
       IN IF vlanTag \in {33024, 34984} THEN Return(m, TRUE)
          ELSE ProcessData(m, "ethernet",
                           EthernetData(frame.destMac, frame.srcMac, vlanTag,
                                        Truncated(frame.payload, frame.len)))

\* onProcessFrame of Arp
DecodeArp(r, m, frame) ==
  IF frame.etherType # 2054 THEN Return(m, FALSE)
  ELSE LET p == frame.payload
           hs == p.hardwareSize
           ps == p.protocolSize
       IN IF p.hardwareType # 1 THEN Return(m, TRUE)
          ELSE IF SliceLen(p.len, 8, 8 + hs) # 6
                  \/ SliceLen(p.len, 8 + hs + ps, 8 + 2 * hs + ps) # 6
               THEN ThrowError(m)
          ELSE IF p.protocolType # 2048 THEN Return(m, TRUE)
          ELSE IF SliceLen(p.len, 8 + hs, 8 + hs + ps) # 4
                  \/ SliceLen(p.len, 8 + 2 * hs + ps, 8 + 2 * hs + 2 * ps) # 4
               THEN ThrowError(m)
          ELSE IF p.operation \in {1, 2}
               THEN ProcessData(m, "arp",
                                ArpData(frame.srcMac, frame.destMac, p.operation,
                                        p.originMac, p.originIp, p.queriedMac, p.queriedIp))
               ELSE Return(m, TRUE)

\* onProcessFrame of ArpImplementation
DecodeRouterArp(r, m, frame) ==
  LET res == ProcessArp(r, frame)
  IN IF res.sent = <<>> THEN Return(m, res.consumed)
     ELSE ContextSendFrame(Push(m, Returning(res.consumed)), "routerArp", res.sent[1])

\* onProcessFrame of Ipv4
DecodeIpv4(r, m, frame) ==
  IF frame.etherType # 2048 THEN Return(m, FALSE)
  ELSE LET p == frame.payload
       IN IF p.len = 0 \/ p.kind # "ipv4" \/ p.version # 4 THEN Return(m, TRUE)
          ELSE IF SliceLen(p.len, 12, 16) # 4 \/ SliceLen(p.len, 16, 20) # 4 THEN ThrowError(m)
          ELSE IF ~p.checksumOk \/ p.options # 0 \/ p.fragment THEN Return(m, TRUE)
          ELSE ProcessData(m, "ipv4", Ipv4Data(p.srcIp, p.destIp, p.protocol, p.payload))

\* onProcessFrame of Noop with consumeIf: etherType === 0x86DD
DecodeIpv6(r, m, frame) == Return(m, frame.etherType = 34525)

\* options.pingServer
PingServer == <<192, 168, 13, 37>>

\* onSendData of Icmp
IcmpOnSendData(r, m, data) ==
  IF data.type \notin {0, 8} \/ data.code # 0 THEN ThrowError(m)
  ELSE IF toBigEndianFromInt2(data.identifier) < 0 \/ toBigEndianFromInt2(data.sequenceNumber) < 0
       THEN ThrowError(m)
  ELSE ContextSendFrame(m, "icmp",
                        Ipv4Data(data.srcIp, data.destIp, 1,
                                 IcmpBytes(data.type, data.code, TRUE,
                                           toBigEndianFromInt2(data.identifier),
                                           toBigEndianFromInt2(data.sequenceNumber), data.data)))

\* outstandingPings.delete(pingId); resolve()
ResolvePing(run, pingId) ==
  [run EXCEPT !.a = [@ EXCEPT !.pings[run.a.outstandingPings[pingId]].settled = "resolved",
                               !.outstandingPings = [k \in DOMAIN @ \ {pingId} |-> @[k]]]]

\* An Icmp handler that answers every echo packet, replies and its own too.
DecodeIcmpAnswersAll(r, m, frame) ==
  IF frame.protocol # 1 THEN Return(m, FALSE)
  ELSE LET p == frame.payload
       IN IF p.kind # "icmp" \/ ~p.checksumOk THEN Return(m, TRUE)
          ELSE IF p.type \notin {0, 8} \/ p.code # 0 THEN Return(m, TRUE)
          ELSE IcmpOnSendData(r, Push(m, Returning(TRUE)),
                              IcmpData(frame.destIp, frame.srcIp, 0, 0, p.identifier,
                                       p.sequenceNumber, p.data))

\* onProcessFrame of Icmp
DecodeIcmp(r, m, frame) ==
  IF frame.protocol # 1 THEN Return(m, FALSE)
  ELSE LET p == frame.payload
       IN IF p.kind # "icmp" \/ ~p.checksumOk THEN Return(m, TRUE)
          ELSE IF p.type \notin {0, 8} \/ p.code # 0 THEN Return(m, TRUE)
          ELSE IF p.type = 8 /\ frame.destIp = PingServer
               THEN IcmpOnSendData(r, Push(m, Returning(TRUE)),
                                   IcmpData(PingServer, frame.srcIp, 0, 0, p.identifier,
                                            p.sequenceNumber, p.data))
          ELSE LET pingId == PingIdOf(p.identifier, p.sequenceNumber)
               IN IF pingId \in DOMAIN m.run.a.outstandingPings
                  THEN Return(IF p.type = 0 THEN [m EXCEPT !.run = ResolvePing(@, pingId)] ELSE m,
                              TRUE)
                  ELSE ProcessData(m, "icmp",
                                   IcmpData(frame.srcIp, frame.destIp, p.type, p.code,
                                            p.identifier, p.sequenceNumber, p.data))

\* onProcessFrame of Tcp and Udp: a protocol takes the packets with its
\* protocol number; what it does with them is in the actions of its handler.
DecodeTransport(r, m, number, frame) == Return(m, frame.protocol = number)

\* The callback of context.onProcessFrame of each protocol.
Decode(r, m, protocol, data) ==
  CASE protocol = "ethernet" -> DecodeEthernet(r, m, data)
    [] protocol = "arp" -> DecodeArp(r, m, data)
    [] protocol = "routerArp" -> DecodeRouterArp(r, m, data)
    [] protocol = "ipv4" -> DecodeIpv4(r, m, data)
    [] protocol = "ipv6" -> DecodeIpv6(r, m, data)
    [] protocol = "icmp" -> DecodeIcmp(r, m, data)
    [] protocol = "tcp" -> DecodeTransport(r, m, 6, data)
    [] protocol = "udp" -> DecodeTransport(r, m, 17, data)
    [] OTHER -> Return(m, FALSE)

\* The callback of context.onSendData of each protocol: Ipv4 looks up the
\* devices of both addresses and throws if one is missing.
SendHook(r, m, protocol, data) ==
  CASE protocol = "ethernet" ->
         ContextSendFrame(m, "ethernet",
                          Frame(14 + data.payload.len, data.destMac, data.srcMac,
                                data.etherType, data.payload))
    [] protocol = "arp" ->
         ContextSendFrame(m, "arp",
                          EthernetData(data.destMac, data.srcMac, 2054, ArpPayload(data)))
    [] protocol = "ipv4" ->
         IF getDeviceByIp(r, data.srcIp) = NoDevice \/ getDeviceByIp(r, data.destIp) = NoDevice
         THEN ThrowError(m)
         ELSE ContextSendFrame(m, "ipv4",
                               EthernetData(getDeviceByIp(r, data.destIp).mac,
                                            getDeviceByIp(r, data.srcIp).mac, 2048,
                                            Ipv4Payload(data)))
    [] protocol = "icmp" -> IcmpOnSendData(r, m, data)
    [] OTHER -> ContextSendFrame(m, protocol, data)

\* A callback of a target is called with data: the one every protocol has on
\* the processData target of the protocol above and on its own sendData
\* target, or one a user of the protocol has registered.
CallListener(r, m, listener, data) ==
  CASE listener.kind = "wrapper" -> Emit(m, <<listener.layer, "processFrame">>, data)
    [] listener.kind = "decoder" -> Decode(r, m, listener.layer, data)
    [] listener.kind = "send" ->
         SendHook(r, Push(m, Returning(FALSE)), listener.layer, data)
    [] listener.kind = "forward" ->
         ContextSendFrame(Push(m, Returning(FALSE)), listener.layer, data)
    [] OTHER -> Return(m, FALSE)

\* An emit that stops at the first callback that returns consumed: true.
EmitUntilConsumed(r, m, f) ==
  IF f.some \/ f.n > Len(ListenersAt(m.run.a, f.at)) THEN Return(m, f.some)
  ELSE CallListener(r, Push(m, [f EXCEPT !.k = "called"]), ListenersAt(m.run.a, f.at)[f.n],
                    f.data)

\* target.emit(data) from the n-th callback on, and results.some(consumed):
\* every callback is called, whatever the ones before it returned.
EmitFrom(r, m, f) ==
  IF f.n > Len(ListenersAt(m.run.a, f.at)) THEN Return(m, f.some)
  ELSE CallListener(r, Push(m, [f EXCEPT !.k = "called"]), ListenersAt(m.run.a, f.at)[f.n],
                    f.data)

\* The n-th callback has returned: its result is in the trace and the next
\* callback is called.
EmitAfter(m, f) ==
  Push([m EXCEPT !.run = Logged(@, HookEvent(f.at, f.e, f.n, ListenersAt(m.run.a, f.at)[f.n],
                                             m.consumed))],
       Emitting(f.at, f.e, f.n + 1, f.some \/ m.consumed, f.data))

\* The caller f goes on after its callee has returned.
Resume(r, m, f) ==
  CASE f.k = "emit" -> EmitFrom(r, m, f)
    [] f.k = "called" -> EmitAfter(m, f)
    [] f.k = "return" -> Return(m, f.consumed)

\* The innermost call in progress makes its next step.
Step(r, m) == Resume(r, [m EXCEPT !.stack = Tail(@)], Head(m.stack))

\* The calls in progress run until they have all returned or thrown, for at
\* most 2^k steps.
RECURSIVE RunCalls(_, _, _)
RunCalls(r, m, k) ==
  IF m.stack = <<>> THEN m
  ELSE IF k = 0 THEN Step(r, m)
  ELSE RunCalls(r, RunCalls(r, m, k - 1), k - 1)

\* Calls were still in progress when the steps the model follows were used up.
Unfinished == [k |-> "unfinished", frame |-> Frame(0, "", "", 0, NoPayload)]

Finished(m) == IF m.stack = <<>> THEN m.run ELSE Logged(m.run, Unfinished)

\* What an operation has done when the calls it has made have returned.
Outcome(r, m) == Finished(RunCalls(r, m, MaxStepsLog))

\* startCapture(): ethernet.onReceiveFrame(callback)
StartCaptureOn(run) ==
  IF run.a.isDestroyed THEN Raise(run)
  ELSE [run EXCEPT !.a = AddListener([run.a EXCEPT !.captures = @ + 1], "ethernet",
                                     "processFrame",
                                     Listener("capture", "ethernet", run.a.captures + 1))]

\* A destroy that leaves the callbacks of the protocols below Ethernet.
DestroyEthernetOnly(run) ==
  IF run.a.isDestroyed THEN Raise(run)
  ELSE [run EXCEPT !.a = [@ EXCEPT !.isDestroyed = TRUE, !.onReceiveCallbacks = <<>>,
                           !.targets = [t \in DOMAIN @ |-> IF t[1] = "ethernet" THEN <<>> ELSE @[t]]]]

\* destroy(): removeAllListeners on the four targets of every protocol
DestroyAdapter(run) ==
  IF run.a.isDestroyed THEN Raise(run)
  ELSE [run EXCEPT !.a = [@ EXCEPT !.isDestroyed = TRUE, !.onReceiveCallbacks = <<>>,
                           !.targets = [t \in DOMAIN @ |-> <<>>]]]

\* The operation of the adapter that ran last.
AdapterOp(name, frame, run) ==
  [name |-> name, frame |-> frame, raised |-> run.raised, trace |-> run.trace]

NoWireFrame == Frame(0, "", "", 0, NoPayload)

InitAdapter ==
  /\ adapter = NewNetworkAdapter
  /\ aop = AdapterOp("init", NoWireFrame, Run(NewNetworkAdapter))

InitTcp ==
  /\ tcpSockets = <<>>
  /\ listeners = <<>>
  /\ op = Op("init", NoPacket, Empty, 0)
  /\ evt = <<>>
  /\ delivered = <<>>
  /\ nWrites = 0

Init ==
  /\ InitTcp
  /\ router = NewRouter(AdapterOptions)
  /\ rop = RouterOp("init", "", NoFrame, NoDevice, <<>>, FALSE)
  /\ returned = <<>>
  /\ InitAdapter
  /\ InitCalc

\* tcp.connect(srcIp, destIp, srcPort, destPort)
Connect(srcIp, destIp, srcPort, destPort, iss) ==
  LET socket == NewTcpSocket(FALSE, srcIp, destIp, srcPort, destPort, iss)
  IN /\ op' = Op("connect", NoPacket, Empty, iss)
     /\ IF Taken(socket) THEN Threw
        ELSE Ran(SocketConnectionString(socket), SocketConnect(socket))
     /\ UNCHANGED <<listeners, nWrites>>
     /\ UNCHANGED <<routerVars, adapterVars, calcVars>>

\* A tcp.listen that sets the callback whether or not the pair has one.
ListenReplaces(serverIp, serverPort, callback) ==
  /\ op' = Op("listen", NoPacket, Empty, callback)
  /\ listeners' = Put(listeners, <<serverIp, serverPort>>, callback)
  /\ evt' = <<>>
  /\ UNCHANGED <<tcpSockets, delivered, nWrites>>
  /\ UNCHANGED <<routerVars, adapterVars, calcVars>>

\* tcp.listen(serverIp, serverPort, callback)
Listen(serverIp, serverPort, callback) ==
  /\ op' = Op("listen", NoPacket, Empty, callback)
  /\ IF <<serverIp, serverPort>> \in DOMAIN listeners
     THEN Threw /\ UNCHANGED listeners
     ELSE /\ listeners' = Put(listeners, <<serverIp, serverPort>>, callback)
          /\ evt' = <<>>
          /\ UNCHANGED <<tcpSockets, delivered>>
  /\ UNCHANGED nWrites
  /\ UNCHANGED <<routerVars, adapterVars, calcVars>>

\* tcp.listenExact(serverIp, clientIp, serverPort, clientPort)
ListenExact(serverIp, clientIp, serverPort, clientPort, iss) ==
  LET socket == NewTcpSocket(TRUE, serverIp, clientIp, serverPort, clientPort, iss)
  IN /\ op' = Op("listenExact", NoPacket, Empty, iss)
     /\ IF Taken(socket) THEN Threw
        ELSE Ran(SocketConnectionString(socket), SocketListen(socket))
     /\ UNCHANGED <<listeners, nWrites>>
     /\ UNCHANGED <<routerVars, adapterVars, calcVars>>

\* context.onProcessFrame, from the decoded tcpPacket on (the checksum of the
\* frame is right); iss is the draw of a socket the handler may construct.
ProcessFrame(tcpPacket, iss) ==
  LET connectionKey == connectionString(tcpPacket.destIp, tcpPacket.srcIp,
                                        tcpPacket.destPort, tcpPacket.srcPort)
      found == connectionKey \in DOMAIN tcpSockets
      accept == /\ ~found \/ tcpSockets[connectionKey].state = "CLOSED"
                /\ <<tcpPacket.destIp, tcpPacket.destPort>> \in DOMAIN listeners
      listenerCallback == listeners[<<tcpPacket.destIp, tcpPacket.destPort>>]
      socket == NewTcpSocket(TRUE, tcpPacket.destIp, tcpPacket.srcIp,
                             tcpPacket.destPort, tcpPacket.srcPort, iss)
      listening == SocketListen(socket)
      accepted == [listening EXCEPT
                     !.out = Append(@, Evt("accept", [NoPacket EXCEPT !.id = listenerCallback]))]
  IN /\ op' = Op("frame", tcpPacket, Empty, 0)
     /\ IF accept
        THEN IF Taken(socket) THEN Threw
             ELSE Ran(SocketConnectionString(socket), Process(accepted, tcpPacket))
        ELSE IF found
             THEN Ran(connectionKey, Process(tcpSockets[connectionKey], tcpPacket))
             ELSE evt' = <<>> /\ UNCHANGED <<tcpSockets, delivered>>
     /\ UNCHANGED <<listeners, nWrites>>
     /\ UNCHANGED <<routerVars, adapterVars, calcVars>>

\* socket.write(data), the user's nWrites+1-th buffer, of at most maxWrites
Write(key, len, maxWrites) ==
  LET data == [buf |-> <<"write", nWrites + 1>>, off |-> 0, len |-> len]
  IN /\ key \in DOMAIN tcpSockets
     /\ nWrites < maxWrites
     /\ nWrites' = nWrites + 1
     /\ op' = Op("write", NoPacket, data, 0)
     /\ Ran(key, WriteData(tcpSockets[key], data))
     /\ UNCHANGED listeners
     /\ UNCHANGED <<routerVars, adapterVars, calcVars>>

\* socket.close(), called by the user
Close(key) ==
  /\ key \in DOMAIN tcpSockets
  /\ op' = Op("close", NoPacket, Empty, 0)
  /\ Ran(key, CloseSocket(tcpSockets[key]))
  /\ UNCHANGED <<listeners, nWrites>>
  /\ UNCHANGED <<routerVars, adapterVars, calcVars>>

\* A wait(timeout) of _sendPacket ends and its closure runs on; the model
\* follows the closures up to their turn maxTurn.
TimerFire(key, maxTurn) ==
  /\ key \in DOMAIN tcpSockets
  /\ \E t \in tcpSockets[key].tasks :
       /\ t.i <= maxTurn
       /\ op' = Op("timer", t.pkt, Empty, t.i)
       /\ Ran(key, AfterWait(tcpSockets[key], t))
  /\ UNCHANGED <<listeners, nWrites>>
  /\ UNCHANGED <<routerVars, adapterVars, calcVars>>

\* The setTimeout(() => this._onEstablishedCallback(), 0) task runs.
EstablishedTick(key) ==
  /\ key \in DOMAIN tcpSockets
  /\ tcpSockets[key].tick
  /\ op' = Op("tick", NoPacket, Empty, 0)
  /\ Ran(key, OnEstablishedCallback([tcpSockets[key] EXCEPT !.tick = FALSE]))
  /\ UNCHANGED <<listeners, nWrites>>
  /\ UNCHANGED <<routerVars, adapterVars, calcVars>>

\* ------------------------------------------------- the router's operations
\* An operation ran on the router and left it as r.
RouterRan(r) ==
  /\ Cardinality(DOMAIN r.addressTable) <= MaxAddresses
  /\ router' = r
  /\ UNCHANGED <<tcpVars, adapterVars, calcVars>>

\* The device getOrRegisterDevice(mac) has returned is kept if it is the first
\* it returned for mac.
Remember(mac, device) ==
  IF device = NoDevice \/ mac \in DOMAIN returned THEN returned
  ELSE Put(returned, mac, device)

\* router.registerDevice(mac)
RegisterDevice(mac) ==
  LET res == registerDevice(router, mac)
  IN /\ RouterRan(res.r)
     /\ rop' = RouterOp("registerDevice", mac, NoFrame, res.device, <<>>, FALSE)
     /\ UNCHANGED returned

\* router.getOrRegisterDevice(mac)
GetOrRegisterDevice(mac) ==
  LET res == getOrRegisterDevice(router, mac)
  IN /\ RouterRan(res.r)
     /\ rop' = RouterOp("getOrRegisterDevice", mac, NoFrame, res.device, <<>>, FALSE)
     /\ returned' = Remember(mac, res.device)

\* A DHCP frame reaches the responder.
DhcpProcessFrame(frame) ==
  LET res == ProcessDhcp(router, frame)
  IN /\ RouterRan(res.r)
     /\ rop' = RouterOp("dhcp", frame.clientHardwareAddress, frame, res.device, res.sent,
                         res.consumed)
     /\ returned' = Remember(frame.clientHardwareAddress, res.device)

\* A decoded ARP frame reaches the responder.
ArpProcessFrame(frame) ==
  LET res == ProcessArp(router, frame)
  IN /\ RouterRan(router)
     /\ rop' = RouterOp("arp", frame.srcMac, frame, getDeviceByIp(router, frame.queriedIp),
                         res.sent, res.consumed)
     /\ UNCHANGED returned

\* ------------------------------------------------------ adapter operations
\* An operation of the adapter ran and left the adapter as run.a.
AdapterRan(name, frame, run) ==
  /\ adapter' = run.a
  /\ aop' = AdapterOp(name, frame, run)
  /\ UNCHANGED <<tcpVars, routerVars, calcVars>>

\* The bus delivers a frame on "net0-send".
BusReceive(frame) == AdapterRan("receive", frame, Outcome(router, OnReceive(Calls(Run(adapter)), frame)))

\* adapter.send(frame)
Send(frame) ==
  AdapterRan("send", frame, Outcome(router, NetworkAdapterSend(Calls(Run(adapter)), frame)))

\* adapter.startCapture(), the captures + 1-th of at most maxCaptures
StartCapture(maxCaptures) ==
  /\ adapter.captures < maxCaptures
  /\ AdapterRan("startCapture", NoWireFrame, StartCaptureOn(Run(adapter)))

\* adapter.destroy()
Destroy == AdapterRan("destroy", NoWireFrame, DestroyAdapter(Run(adapter)))

\* adapter.ethernet, adapter.router
Read(name) ==
  AdapterRan(name, NoWireFrame, IF adapter.isDestroyed THEN Raise(Run(adapter)) ELSE Run(adapter))

\* icmp.ping({srcIp, destIp}) with pingId the number the random bytes give,
\* the pings + 1-th of at most maxPings: the future is rejected if onSendData
\* throws.
Ping(pingId, srcIp, destIp, maxPings) ==
  /\ Len(adapter.pings) < maxPings
  /\ LET n == Len(adapter.pings) + 1
         registered == [adapter EXCEPT !.outstandingPings = Put(@, pingId, n),
                                       !.pings = Append(@, [pingId |-> pingId, settled |-> "pending"])]
         run == Outcome(router,
                        IcmpOnSendData(router, Calls(Run(registered)),
                                       IcmpData(srcIp, destIp, 8, 0, ShiftRight16(pingId),
                                                Low16(pingId), Empty)))
     IN AdapterRan("ping", NoWireFrame,
                   IF run.raised THEN [run EXCEPT !.a = [@ EXCEPT !.pings[n].settled = "rejected"]]
                   ELSE run)

\* new Ipv4Address(string)
Ipv4AddressOf(ip) ==
  CASE ip = LocalIp -> <<192, 168, 13, 37>>
    [] ip = RemoteIp -> <<192, 168, 0, 1>>

\* The bytes of tcpPacket, as registerSocket's send callback builds them.
TcpSegment(tcpPacket) == [kind |-> "tcp", len |-> 20 + tcpPacket.data.len, pkt |-> tcpPacket]

\* The closure of _sendPacket of a socket made before hands tcpPacket to the
\* send callback, which gives it to context.sendFrame of Tcp.
SocketSend(tcpPacket) ==
  AdapterRan("socketSend", NoWireFrame,
             Outcome(router,
                     ContextSendFrame(Calls(Run(adapter)), "tcp",
                                      Ipv4Data(Ipv4AddressOf(tcpPacket.srcIp),
                                               Ipv4AddressOf(tcpPacket.destIp), 6,
                                               TcpSegment(tcpPacket)))))

\* The callbacks registerSocket pushed run as the handler calls them: each
\* packet handed to onSendPacketCallback, from the n-th thing the handler did
\* on, goes to context.sendFrame of Tcp. The call is made inside the async
\* closure of _sendPacket, so an Error the stack throws rejects the closure's
\* promise, which nobody awaits: the closure is over and the handler goes on.
RECURSIVE SendThroughStack(_, _, _, _)

\* The closure of tcpPacket is over if its callback threw (sent.raised); the
\* handler goes on with what it did next.
ClosureRan(r, raisedBefore, s, n, tcpPacket, sent) ==
  SendThroughStack(r, [sent EXCEPT !.raised = raisedBefore \/ sent.raised],
                   IF sent.raised
                   THEN [s EXCEPT !.tasks = {t \in @ : t.pkt.id # tcpPacket.id}]
                   ELSE s,
                   n + 1)

SendThroughStack(r, run, s, n) ==
  IF n > Len(s.out) THEN [s |-> s, run |-> run]
  ELSE IF s.out[n].k # "send" THEN SendThroughStack(r, run, s, n + 1)
  ELSE ClosureRan(r, run.raised, s, n, s.out[n].pkt,
                  Outcome(r, ContextSendFrame(Calls([run EXCEPT !.raised = FALSE]), "tcp",
                                              Ipv4Data(Ipv4AddressOf(s.out[n].pkt.srcIp),
                                                       Ipv4AddressOf(s.out[n].pkt.destIp), 6,
                                                       TcpSegment(s.out[n].pkt)))))

\* The handler that ran on the socket under key has left the socket and the
\* adapter as through says.
StackRanAs(key, through) ==
  /\ Ran(key, through.s)
  /\ adapter' = through.run.a
  /\ aop' = AdapterOp("socketSend", NoWireFrame, through.run)

\* A handler ran on the socket under key, with the stack behind its send
\* callback, and left it as s.
StackRan(key, s) == StackRanAs(key, SendThroughStack(router, Run(adapter), s, 1))

\* tcp.connect(srcIp, destIp, srcPort, destPort) of the adapter's Tcp handler
StackConnect(srcIp, destIp, srcPort, destPort, iss) ==
  LET socket == NewTcpSocket(FALSE, srcIp, destIp, srcPort, destPort, iss)
  IN /\ op' = Op("connect", NoPacket, Empty, iss)
     /\ IF Taken(socket) THEN Threw /\ UNCHANGED adapterVars
        ELSE StackRan(SocketConnectionString(socket), SocketConnect(socket))
     /\ UNCHANGED <<listeners, nWrites>>
     /\ UNCHANGED <<routerVars, calcVars>>

\* context.onProcessFrame of the adapter's Tcp handler, from the decoded
\* tcpPacket on
StackProcessFrame(tcpPacket, iss) ==
  LET connectionKey == connectionString(tcpPacket.destIp, tcpPacket.srcIp,
                                        tcpPacket.destPort, tcpPacket.srcPort)
      found == connectionKey \in DOMAIN tcpSockets
      accept == /\ ~found \/ tcpSockets[connectionKey].state = "CLOSED"
                /\ <<tcpPacket.destIp, tcpPacket.destPort>> \in DOMAIN listeners
      listenerCallback == listeners[<<tcpPacket.destIp, tcpPacket.destPort>>]
      socket == NewTcpSocket(TRUE, tcpPacket.destIp, tcpPacket.srcIp,
                             tcpPacket.destPort, tcpPacket.srcPort, iss)
      listening == SocketListen(socket)
      accepted == [listening EXCEPT
                     !.out = Append(@, Evt("accept", [NoPacket EXCEPT !.id = listenerCallback]))]
  IN /\ op' = Op("frame", tcpPacket, Empty, 0)
     /\ IF accept
        THEN IF Taken(socket) THEN Threw /\ UNCHANGED adapterVars
             ELSE StackRan(SocketConnectionString(socket), Process(accepted, tcpPacket))
        ELSE IF found
             THEN StackRan(connectionKey, Process(tcpSockets[connectionKey], tcpPacket))
             ELSE evt' = <<>> /\ UNCHANGED <<tcpSockets, delivered>> /\ UNCHANGED adapterVars
     /\ UNCHANGED <<listeners, nWrites>>
     /\ UNCHANGED <<routerVars, calcVars>>

\* socket.write(data) on a socket of the adapter's Tcp handler
StackWrite(key, len, maxWrites) ==
  LET data == [buf |-> <<"write", nWrites + 1>>, off |-> 0, len |-> len]
  IN /\ key \in DOMAIN tcpSockets
     /\ nWrites < maxWrites
     /\ nWrites' = nWrites + 1
     /\ op' = Op("write", NoPacket, data, 0)
     /\ StackRan(key, WriteData(tcpSockets[key], data))
     /\ UNCHANGED listeners
     /\ UNCHANGED <<routerVars, calcVars>>

\* A wait(timeout) of _sendPacket ends on a socket of the adapter's Tcp
\* handler.
StackTimerFire(key, maxTurn) ==
  /\ key \in DOMAIN tcpSockets
  /\ \E t \in tcpSockets[key].tasks :
       /\ t.i <= maxTurn
       /\ op' = Op("timer", t.pkt, Empty, t.i)
       /\ StackRan(key, AfterWait(tcpSockets[key], t))
  /\ UNCHANGED <<listeners, nWrites>>
  /\ UNCHANGED <<routerVars, calcVars>>

\* The setTimeout(() => this._onEstablishedCallback(), 0) task runs on a
\* socket of the adapter's Tcp handler.
StackEstablishedTick(key) ==
  /\ key \in DOMAIN tcpSockets
  /\ tcpSockets[key].tick
  /\ op' = Op("tick", NoPacket, Empty, 0)
  /\ StackRan(key, OnEstablishedCallback([tcpSockets[key] EXCEPT !.tick = FALSE]))
  /\ UNCHANGED <<listeners, nWrites>>
  /\ UNCHANGED <<routerVars, calcVars>>

\* ---------------------------------------------------- the peer's packets
LocalKey == connectionString(LocalIp, RemoteIp, LocalPort, RemotePort)

FromPeer(seq, ack, flags, data) ==
  TcpPacket(0, RemoteIp, LocalIp, RemotePort, LocalPort, seq, ack, flags, data)

\* The ack number of a peer that has received everything the socket sent.
AckAll == IF LocalKey \in DOMAIN tcpSockets THEN {tcpSockets[LocalKey].seq} ELSE {0}

\* ... or of a peer whose ack number is stale.
StaleOrAll == AckAll \cup {0}

\* ack numbers a peer may send: everything sent so far, one more, a stale one,
\* and the first and the last sequence number of each packet still unacked.
PeerAcks ==
  IF LocalKey \in DOMAIN tcpSockets
  THEN LET s == tcpSockets[LocalKey]
       IN {0, s.seq, s.seq + 1}
          \cup {s.sentUnacked[n].seq : n \in 1..Len(s.sentUnacked)}
          \cup {s.sentUnacked[n].seq + s.sentUnacked[n].data.len : n \in 1..Len(s.sentUnacked)}
  ELSE {0}

\* Segment k of the peer's stream, sent by a peer whose SYN had seq isn.
PeerSegment(isn, k, a) ==
  FromPeer(isn + 1 + PeerCuts[k], a, {"ack"}, PeerData(PeerCuts[k], PeerCuts[k + 1]))

\* A packet without data (a bare ACK, a keepalive) at the k-th cut.
PeerBare(isn, k, a) == FromPeer(isn + 1 + PeerCuts[k], a, {"ack"}, Empty)

PeerSegments(acks) ==
  {PeerSegment(isn, k, a) : isn \in PeerIsns, k \in 1..(Len(PeerCuts) - 1), a \in acks}

PeerBares(acks) ==
  {PeerBare(isn, k, a) : isn \in PeerIsns, k \in 1..Len(PeerCuts), a \in acks}

PeerSyns == {FromPeer(isn, 0, {"syn"}, Empty) : isn \in PeerIsns}

PeerSynAcks(acks) == {FromPeer(isn, a, {"syn", "ack"}, Empty) : isn \in PeerIsns, a \in acks}

PeerFins(acks) == {FromPeer(isn + 1, a, {"fin", "ack"}, Empty) : isn \in PeerIsns, a \in acks}

PeerRsts == {FromPeer(isn + 1, 0, {"rst"}, Empty) : isn \in PeerIsns}

\* ---------------------------------------------------------- specifications
\* Spec: a client connects; the peer sends every kind of packet with a
\* current or a stale ack number and one segment of data; the user writes once
\* and closes; the closures of _sendPacket are followed up to turn MaxTurns.
HandshakePackets ==
  PeerSyns \cup PeerSynAcks(StaleOrAll) \cup PeerFins(AckAll) \cup PeerRsts
  \cup {PeerBare(isn, 1, a) : isn \in PeerIsns, a \in StaleOrAll}
  \cup {PeerSegment(isn, 1, a) : isn \in PeerIsns, a \in AckAll}

Next ==
  \/ \E iss \in InitialSeqs : Connect(LocalIp, RemoteIp, LocalPort, RemotePort, iss)
  \/ \E p \in HandshakePackets, iss \in InitialSeqs : ProcessFrame(p, iss)
  \/ \E len \in SmallWriteLens : Write(LocalKey, len, 1)
  \/ Close(LocalKey)
  \/ TimerFire(LocalKey, MaxTurns)
  \/ EstablishedTick(LocalKey)

Spec == Init /\ [][Next]_vars

\* SpecServer: the peer opens the connection, to a listener or to a socket of
\* listenExact, and sends the same packets.
NextServer ==
  \/ Listen(LocalIp, LocalPort, 1)
  \/ \E iss \in InitialSeqs : ListenExact(LocalIp, RemoteIp, LocalPort, RemotePort, iss)
  \/ \E p \in HandshakePackets, iss \in InitialSeqs : ProcessFrame(p, iss)
  \/ \E len \in SmallWriteLens : Write(LocalKey, len, 1)
  \/ Close(LocalKey)
  \/ TimerFire(LocalKey, MaxTurns)
  \/ EstablishedTick(LocalKey)

SpecServer == Init /\ [][NextServer]_vars

\* SpecAccept: listeners, sockets of listenExact and of connect on one local
\* port, and a peer that opens, acknowledges and closes connections from two
\* of its ports.
PeerPorts == {RemotePort, OtherPort}

KeyOf(peerPort) == connectionString(LocalIp, RemoteIp, LocalPort, peerPort)

\* The ack number of a peer that has received everything the socket under
\* key has sent.
AckOf(key) == IF key \in DOMAIN tcpSockets THEN tcpSockets[key].seq ELSE 0

FromPeerPort(peerPort, seq, flags) ==
  TcpPacket(0, RemoteIp, LocalIp, peerPort, LocalPort, seq, AckOf(KeyOf(peerPort)), flags, Empty)

\* A FIN that carries the first bytes of the peer's stream.
FinWithData(peerPort, isn) ==
  [FromPeerPort(peerPort, isn + 1, {"fin", "ack"}) EXCEPT !.data = PeerData(0, 3)]

AcceptPackets ==
  {FromPeerPort(rp, isn, {"syn"}) : rp \in PeerPorts, isn \in PeerIsns}
  \cup {FromPeerPort(rp, isn + 1, {"ack"}) : rp \in PeerPorts, isn \in PeerIsns}
  \cup {FromPeerPort(rp, isn + 1, {"fin", "ack"}) : rp \in PeerPorts, isn \in PeerIsns}
  \cup {FinWithData(rp, isn) : rp \in PeerPorts, isn \in PeerIsns}

NextAccept ==
  \/ \E cb \in ListenerCallbacks : Listen(LocalIp, LocalPort, cb)
  \/ \E iss \in InitialSeqs : ListenExact(LocalIp, RemoteIp, LocalPort, RemotePort, iss)
  \/ \E iss \in InitialSeqs : Connect(LocalIp, RemoteIp, LocalPort, RemotePort, iss)
  \/ \E p \in AcceptPackets, iss \in InitialSeqs : ProcessFrame(p, iss)
  \/ \E rp \in PeerPorts : Close(KeyOf(rp))
  \/ \E rp \in PeerPorts : EstablishedTick(KeyOf(rp))

SpecAccept == Init /\ [][NextAccept]_vars

\* SpecRouter: a router of the adapter's subnet or of a subnet of four
\* addresses; devices are registered by hand and by DHCP clients, whose
\* frames reach the responder together with frames that are not for it and
\* with the responder's own replies.
ClientMacs == {"00:22:15:64:7b:90", "52:54:00:12:34:56"}
Macs == ClientMacs \cup {RouterMac}
SubnetMasks == {<<255, 255, 0, 0>>, <<255, 255, 255, 252>>}
Xids == {7, 8}

\* What a client sends to port 67: a DISCOVER or a REQUEST to the broadcast
\* address, or a REQUEST to the router whose option 53 is not its first.
ClientFrame(dest, xid, mac, options) ==
  DhcpFrame(ZeroAddress, 68, dest, 67, 1, xid, mac, ZeroAddress, options)

ClientFrames ==
  {ClientFrame(BroadcastAddress, xid, "52:54:00:12:34:56", <<Option(53, <<type>>)>>) :
     xid \in Xids, type \in {1, 3}}
  \cup {ClientFrame(BroadcastAddress, 7, "00:22:15:64:7b:90", <<Option(53, <<1>>)>>),
         ClientFrame(BroadcastAddress, 7, RouterMac, <<Option(53, <<3>>)>>),
         ClientFrame(RouterAddress, 8, "00:22:15:64:7b:90",
                     <<Option(55, <<1, 3>>), Option(53, <<3>>)>>)}

\* Frames the responder leaves to others: without option 53, of another
\* message type, to another port, to another address.
OtherFrames ==
  {ClientFrame(BroadcastAddress, 7, mac, options) :
     mac \in {"52:54:00:12:34:56"}, options \in {<<>>, <<Option(53, <<7>>)>>}}
  \cup {DhcpFrame(ZeroAddress, 67, BroadcastAddress, 68, 1, 7, "52:54:00:12:34:56",
                   ZeroAddress, <<Option(53, <<1>>)>>),
         ClientFrame(<<192, 168, 0, 1>>, 7, "52:54:00:12:34:56", <<Option(53, <<1>>)>>)}

\* The replies the responder has just sent, seen by it again.
OwnFrames == {rop.sent[n] : n \in 1..Len(rop.sent)}

InitRouter ==
  /\ InitTcp
  /\ \E mask \in SubnetMasks :
       router = NewRouter([mac |-> RouterMac, ip |-> RouterAddress, subnetMask |-> mask])
  /\ rop = RouterOp("init", "", NoFrame, NoDevice, <<>>, FALSE)
  /\ returned = <<>>
  /\ InitAdapter
  /\ InitCalc

NextRouter ==
  \/ \E mac \in Macs : RegisterDevice(mac)
  \/ \E mac \in Macs : GetOrRegisterDevice(mac)
  \/ \E frame \in ClientFrames \cup OtherFrames \cup OwnFrames : DhcpProcessFrame(frame)

SpecRouter == InitRouter /\ [][NextRouter]_vars

\* SpecRecv: a client connects and the peer's stream arrives, its segments in
\* any order and any number of times, with keepalives in between.
RecvPackets == PeerSynAcks(AckAll) \cup PeerSegments(AckAll) \cup PeerBares(AckAll)

NextRecv ==
  \/ \E iss \in InitialSeqs : Connect(LocalIp, RemoteIp, LocalPort, RemotePort, iss)
  \/ \E p \in RecvPackets, iss \in InitialSeqs : ProcessFrame(p, iss)
  \/ TimerFire(LocalKey, MaxTurns)
  \/ EstablishedTick(LocalKey)

SpecRecv == Init /\ [][NextRecv]_vars

\* SpecGiveUp: a client connects and writes once; the peer answers or stays
\* silent; every closure of _sendPacket is followed to its end.
GiveUpPackets ==
  PeerSynAcks(AckAll) \cup PeerFins(AckAll)
  \cup {PeerBare(isn, 1, a) : isn \in PeerIsns, a \in AckAll}

NextGiveUp ==
  \/ \E iss \in InitialSeqs : Connect(LocalIp, RemoteIp, LocalPort, RemotePort, iss)
  \/ \E p \in GiveUpPackets, iss \in InitialSeqs : ProcessFrame(p, iss)
  \/ \E len \in SmallWriteLens : Write(LocalKey, len, 1)
  \/ Close(LocalKey)
  \/ TimerFire(LocalKey, MaxTries)
  \/ EstablishedTick(LocalKey)

SpecGiveUp == Init /\ [][NextGiveUp]_vars

\* SpecWrite: a client connects and writes buffers of every length in
\* WriteLens before and after the connection is established, while the peer
\* answers, acknowledges or closes.
\* The peer's packets of SpecWrite: those of SpecGiveUp, bare ACKs with every
\* ack number of PeerAcks, and a packet whose ack number is current but whose
\* ACK flag is not set.
WritePackets ==
  GiveUpPackets
  \cup {PeerBare(isn, 1, a) : isn \in PeerIsns, a \in PeerAcks}
  \cup {FromPeer(isn + 1, a, {}, Empty) : isn \in PeerIsns, a \in AckAll}

NextWrite ==
  \/ \E iss \in InitialSeqs : Connect(LocalIp, RemoteIp, LocalPort, RemotePort, iss)
  \/ \E p \in WritePackets, iss \in InitialSeqs : ProcessFrame(p, iss)
  \/ \E len \in WriteLens : Write(LocalKey, len, MaxWrites)
  \/ Close(LocalKey)
  \/ EstablishedTick(LocalKey)

SpecWrite == Init /\ [][NextWrite]_vars

\* SpecArp: devices are registered by hand, also twice, while ARP requests and
\* replies of a client reach the responder, for the addresses of devices and
\* for addresses nobody has, together with the responder's own replies.
ArpQueried == {RouterAddress, <<192, 168, 0, 1>>, <<192, 168, 0, 2>>, <<10, 0, 0, 1>>}
ArpFrames ==
  {ArpData("52:54:00:12:34:56", dest, 1, "52:54:00:12:34:56", ZeroAddress, "", ip) :
     dest \in {RouterMac, MacBroadcastAddress, "00:22:15:64:7b:90"}, ip \in ArpQueried}
  \cup {ArpData("52:54:00:12:34:56", MacBroadcastAddress, 2, "52:54:00:12:34:56", ip,
                  "52:54:00:12:34:56", ip) : ip \in {<<192, 168, 0, 1>>}}
  \cup {ArpData(RouterMac, MacBroadcastAddress, 1, RouterMac, RouterAddress, "", ip) :
          ip \in {<<192, 168, 0, 1>>}}

NextArp ==
  \/ \E mac \in Macs : RegisterDevice(mac)
  \/ \E frame \in ArpFrames \cup OwnFrames : ArpProcessFrame(frame)

SpecArp == InitRouter /\ [][NextArp]_vars

\* SpecAdapter: frames of every kind reach the adapter from the bus and from
\* its user, complete and cut short; captures are started, devices are
\* registered, sockets retransmit, and the adapter is destroyed.
ClientMac == "52:54:00:12:34:56"
ArpRequest(hardwareType, hardwareSize, protocolType, operation) ==
  [ArpPayload(ArpData(ClientMac, MacBroadcastAddress, operation, ClientMac, ZeroAddress, "",
                      RouterAddress))
     EXCEPT !.hardwareType = hardwareType, !.hardwareSize = hardwareSize,
            !.protocolType = protocolType, !.len = 8 + 2 * hardwareSize + 8]

\* Complete frames: ARP requests the responder answers and ones of other
\* types, sizes and operations, IPv4 packets with TCP inside, right and wrong,
\* an IPv6 packet, a VLAN tag, an EtherType nobody handles.
SynOf(srcIp, destIp) == TcpPacket(1, srcIp, destIp, LocalPort, RemotePort, 100, 0, {"syn"}, Empty)
Ipv4Packets ==
  LET good == Ipv4Payload(Ipv4Data(<<192, 168, 0, 1>>, RouterAddress, 6,
                                   TcpSegment(SynOf(RemoteIp, LocalIp))))
  IN {good, [good EXCEPT !.version = 6], [good EXCEPT !.checksumOk = FALSE],
      [good EXCEPT !.options = 4], [good EXCEPT !.fragment = TRUE]}
CompleteFrames ==
  {Frame(14 + p.len, MacBroadcastAddress, ClientMac, 2054, p) :
     p \in {ArpRequest(1, 6, 2048, 1), ArpRequest(6, 6, 2048, 1), ArpRequest(1, 8, 2048, 1),
            ArpRequest(1, 6, 34525, 1), ArpRequest(1, 6, 2048, 3)}}
  \cup {Frame(14 + p.len, RouterMac, ClientMac, 2048, p) : p \in Ipv4Packets}
  \cup {Frame(14, RouterMac, ClientMac, etherType, NoPayload) : etherType \in {34525, 33024, 4660}}

\* The first len bytes of a complete frame.
CutLens == {0, 6, 11, 13, 14, 24, 34}
WireFrames ==
  CompleteFrames
  \cup {[f EXCEPT !.len = len] : f \in {Frame(42, MacBroadcastAddress, ClientMac, 2054, ArpRequest(1, 6, 2048, 1)),
                                        Frame(54, RouterMac, ClientMac, 2048,
                                              Ipv4Payload(Ipv4Data(<<192, 168, 0, 1>>, RouterAddress, 6,
                                                                   TcpSegment(SynOf(RemoteIp, LocalIp)))))},
                                 len \in CutLens}

\* The packets of the sockets made before: of one to the address of the
\* first device registered, and of one to itself.
SocketPackets == {SynOf(LocalIp, RemoteIp), SynOf(LocalIp, LocalIp)}

NextAdapter ==
  \/ \E frame \in WireFrames : BusReceive(frame)
  \/ \E frame \in CompleteFrames : Send(frame)
  \/ StartCapture(MaxCaptures)
  \/ Destroy
  \/ \E name \in {"ethernet", "router"} : Read(name)
  \/ \E tcpPacket \in SocketPackets : SocketSend(tcpPacket)
  \/ \E mac \in ClientMacs : RegisterDevice(mac)

SpecAdapter == Init /\ [][NextAdapter]_vars

\* ------------------------------------------------------------ SpecPing
\* Pings from the router's address to the address of the first client, with
\* the least and the greatest pingId, 0 and -1; echo replies of the client
\* with these keys and another, echo requests to a third address and to the
\* ping server, messages with a wrong checksum, another code, another type.
MinInt32 == -2147483647 - 1
PingIds == {0, -1, 2147483647, MinInt32}
PingTargets == {<<192, 168, 0, 1>>}
IcmpFrameOf(destIp, icmpBytes) ==
  Frame(42, RouterMac, ClientMac, 2048,
        Ipv4Payload(Ipv4Data(<<192, 168, 0, 1>>, destIp, 1, icmpBytes)))
EchoOf(type, pingId) ==
  IcmpBytes(type, 0, TRUE, toBigEndianFromInt2(ShiftRight16(pingId)), Low16(pingId), Empty)
IcmpFrames ==
  {IcmpFrameOf(RouterAddress, EchoOf(0, pingId)) : pingId \in PingIds \cup {1}}
  \cup {IcmpFrameOf(<<192, 168, 0, 2>>, EchoOf(8, pingId)) : pingId \in PingIds}
  \cup {IcmpFrameOf(RouterAddress, icmpBytes) :
          icmpBytes \in {EchoOf(8, 1), [EchoOf(0, 0) EXCEPT !.checksumOk = FALSE],
                         [EchoOf(0, 0) EXCEPT !.code = 1], [EchoOf(0, 0) EXCEPT !.type = 3]}}

NextPing ==
  \/ \E pingId \in PingIds, destIp \in PingTargets : Ping(pingId, RouterAddress, destIp, MaxPings)
  \/ \E frame \in IcmpFrames : BusReceive(frame)
  \/ \E mac \in {ClientMac} : RegisterDevice(mac)

SpecPing == Init /\ [][NextPing]_vars

\* ------------------------------------------------------------ SpecStack
\* A client socket of the adapter's Tcp handler connects to the address the
\* first device gets, before or after that device is registered, and writes;
\* the peer's SYN-ACK and its acknowledgements arrive.
StackPackets ==
  PeerSynAcks(AckAll) \cup {PeerBare(isn, 1, a) : isn \in PeerIsns, a \in AckAll}

NextStack ==
  \/ \E iss \in InitialSeqs : StackConnect(LocalIp, RemoteIp, LocalPort, RemotePort, iss)
  \/ \E p \in StackPackets, iss \in InitialSeqs : StackProcessFrame(p, iss)
  \/ \E len \in SmallWriteLens : StackWrite(LocalKey, len, MaxWrites)
  \/ StackTimerFire(LocalKey, MaxTurns)
  \/ StackEstablishedTick(LocalKey)
  \/ \E mac \in {ClientMac} : RegisterDevice(mac)

SpecStack == Init /\ [][NextStack]_vars

\* -------------------------------------------------------- SpecChecksum
\* The checksum of every sequence of at most MaxBytes bytes, each of them one
\* of ByteValues, and of the sequence with the complement of its checksum
\* behind it.
ByteValues == {0, 1, 128, 255}

RECURSIVE ByteSequences(_)
ByteSequences(n) ==
  IF n = 0 THEN {<<>>}
  ELSE ByteSequences(n - 1)
         \cup {Append(b, v) : b \in {c \in ByteSequences(n - 1) : Len(c) = n - 1}, v \in ByteValues}

\* internetChecksum(data) and internetChecksum([...data, ...complement])
Checksum(data) ==
  /\ calc' = Applied("internetChecksum", data,
                     <<internetChecksum(data),
                       internetChecksum(data \o ComplementBytes(internetChecksum(data)))>>)
  /\ UNCHANGED <<tcpVars, routerVars, adapterVars>>

NextChecksum == \E data \in ByteSequences(MaxBytes) : Checksum(data)

SpecChecksum == Init /\ [][NextChecksum]_vars

\* SpecLoopback: frames of a client reach the adapter from the bus (ARP
\* requests, echo requests and replies, TCP segments)
\* while a socket of the adapter's Tcp handler connects and the peer's packets
\* are processed; the adapter gives every frame it writes to the bus to its
\* own onReceive.
LoopbackFrames == CompleteFrames \cup IcmpFrames

NextLoopback ==
  \/ \E frame \in LoopbackFrames : BusReceive(frame)
  \/ \E mac \in {ClientMac} : RegisterDevice(mac)
  \/ \E iss \in InitialSeqs : StackConnect(LocalIp, RemoteIp, LocalPort, RemotePort, iss)
  \/ \E p \in StackPackets, iss \in InitialSeqs : StackProcessFrame(p, iss)
  \/ StackEstablishedTick(LocalKey)

SpecLoopback == Init /\ [][NextLoopback]_vars

\* SpecSeqNumbers: the sequence numbers of a client socket as JavaScript
\* numbers, which do not wrap at 2^32. A number is the pair <<hi, lo>> of
\* hi * 65536 + lo with lo in 0..65535.
Plus(x, n) == <<x[1] + ((x[2] + n) \div 65536), (x[2] + n) % 65536>>

Less(x, y) == x[1] < y[1] \/ (x[1] = y[1] /\ x[2] < y[2])

\* 256 ** bytes for bytes >= 2
Pow256(bytes) == <<256 ^ (bytes - 2), 0>>

\* result[i] = int / 256 ** (bytes - i - 1), stored in a Uint8Array
ByteOf(int, bytes, i) ==
  IF bytes - i - 1 >= 2
  THEN (int[1] \div (256 ^ (bytes - i - 3))) % 256
  ELSE (int[2] \div (256 ^ (bytes - i - 1))) % 256

\* toBigEndianFromInt(bytes, int) of an integer
toBigEndianFromInt(bytes, int) ==
  LET wrapped == IF int[1] < 0 THEN <<int[1] + Pow256(bytes)[1], int[2]>> ELSE int
  IN IF wrapped[1] < 0 THEN [threw |-> TRUE, bytes |-> <<>>]
     ELSE IF ~Less(wrapped, Pow256(bytes)) THEN [threw |-> TRUE, bytes |-> <<>>]
     ELSE [threw |-> FALSE, bytes |-> [i \in 1..bytes |-> ByteOf(wrapped, bytes, i - 1)]]

\* The values of this._seq the constructor draws: multiples of 100 below 2^30.
ConstructorSeqs == {<<0, 0>>, <<0, 300>>, <<16383, 65512>>}
\* The peer's initial sequence numbers, read from four bytes of its SYN+ACK.
PeerSeqs == {<<0, 0>>, <<0, 40>>, <<32767, 65535>>, <<65535, 64335>>, <<65535, 65534>>, <<65535, 65535>>}
\* Bytes written by the user and bytes received in order from the peer.
SentLens == {0, 5, 1200}
ReceivedLens == {0, 3, 1200}

\* The header fields of the bare ACK a client sends after connect() with
\* this._seq = iss, the peer's SYN+ACK with seq = peerSeq, write() of sent
\* bytes and received bytes of the peer in order.
SeqOfAck(iss, sent) == Plus(Plus(iss, 1), sent)
AckOfAck(peerSeq, received) == Plus(Plus(peerSeq, 1), received)

Serialize(iss, peerSeq, sent, received) ==
  /\ calc' = Applied("sendPacket",
                     <<SeqOfAck(iss, sent), AckOfAck(peerSeq, received)>>,
                     <<toBigEndianFromInt(4, SeqOfAck(iss, sent)),
                       toBigEndianFromInt(4, AckOfAck(peerSeq, received))>>)
  /\ UNCHANGED <<tcpVars, routerVars, adapterVars>>

NextSeqNumbers ==
  \E iss \in ConstructorSeqs, peerSeq \in PeerSeqs, sent \in SentLens, received \in ReceivedLens :
    Serialize(iss, peerSeq, sent, received)

SpecSeqNumbers == Init /\ [][NextSeqNumbers]_vars

\* SpecFair: the client of Spec without the user's write and close, every
\* closure of _sendPacket followed to its end. A wait(timeout) that was started
\* ends and a task of setTimeout(..., 0) that was queued runs: the event loop
\* runs every timer that is due.
NextFair ==
  \/ \E iss \in InitialSeqs : Connect(LocalIp, RemoteIp, LocalPort, RemotePort, iss)
  \/ \E p \in HandshakePackets, iss \in InitialSeqs : ProcessFrame(p, iss)
  \/ TimerFire(LocalKey, MaxTries)
  \/ EstablishedTick(LocalKey)

SpecFair ==
  /\ Init
  /\ [][NextFair]_vars
  /\ WF_vars(TimerFire(LocalKey, MaxTries))
  /\ WF_vars(EstablishedTick(LocalKey))

\* -------------------------------------------------------------- properties
\* The socket of the one connection the specifications open.
Has == LocalKey \in DOMAIN tcpSockets
Sock == tcpSockets[LocalKey]

\* The running handler is process() of a packet that is not a FIN, on the
\* socket in state st.
Processing(st) ==
  /\ op'.name = "frame"
  /\ Has
  /\ Sock.state = st
  /\ "fin" \notin op'.pkt.flags

\* A packet with the ACK flag only and no data, as the socket s would send it.
IsBareAck(pkt, s) ==
  /\ pkt.flags = {"ack"}
  /\ pkt.data = Empty
  /\ pkt.seq = s.seq
  /\ pkt.ack = s.ack

\* Each payload starts in the peer's stream where the one before it ended.
InOrder(payloads) ==
  \A n \in 1..Len(payloads) :
    /\ payloads[n].buf = <<"peer", 0>>
    /\ payloads[n].len > 0
    /\ payloads[n].off = IF n = 1 THEN 0 ELSE payloads[n - 1].off + payloads[n - 1].len

\* How many bytes of the peer's stream the onData callbacks were given.
DeliveredLen ==
  IF delivered = <<>> THEN 0
  ELSE delivered[Len(delivered)].off + delivered[Len(delivered)].len

C1_Prefix ==
  /\ InOrder(delivered)
  /\ Has /\ Sock.state = "ESTABLISHED" =>
       /\ \E isn \in PeerIsns : Sock.ack = isn + 1 + DeliveredLen
       /\ \A n \in 1..Len(Sock.recvQueue) : Sock.recvQueue[n].seq > Sock.ack

C1_Held ==
  Processing("ESTABLISHED") /\ op'.pkt.seq > Sock.ack =>
    /\ delivered' = delivered
    /\ Sock'.ack = Sock.ack
    /\ \E n \in 1..Len(Sock'.recvQueue) : Sock'.recvQueue[n] = op'.pkt

\* C1: whatever the order and the repetition in which the peer's segments
\* reach an ESTABLISHED socket, the payloads given to onData are, in order,
\* consecutive pieces of the peer's stream from its first byte on (each byte
\* once, the concatenation a prefix of the stream, the socket's ack number just
\* behind it), and a segment whose seq is above the ack number is kept in the
\* queue, nothing being delivered, until the gap before it is filled.
C1_InOrderDelivery == []C1_Prefix /\ [][C1_Held]_vars

\* The last segment missing arrives and the segments held behind it are
\* delivered with it; the whole stream has been delivered.
C1_GapFilled ==
  /\ op.name = "frame"
  /\ Len(Payloads(evt)) >= 2
  /\ DeliveredLen = PeerCuts[Len(PeerCuts)]

\* C2: a segment with data whose seq is below the ack number of an
\* ESTABLISHED socket makes the socket send exactly one bare ACK with its
\* current seq and ack, call no onData, and leave its ack number as it was.
C2_ReplayAckedOnce ==
  [][Processing("ESTABLISHED") /\ op'.pkt.data.len > 0 /\ op'.pkt.seq < Sock.ack =>
       /\ Len(evt') = 1
       /\ evt'[1].k = "send"
       /\ IsBareAck(evt'[1].pkt, Sock)
       /\ Sock'.ack = Sock.ack
       /\ Sock'.seq = Sock.seq
       /\ delivered' = delivered]_vars

\* A delivered segment has come again and was answered by one ACK.
C2_Replayed ==
  /\ op.name = "frame"
  /\ op.pkt.data.len > 0
  /\ Has
  /\ Sock.state = "ESTABLISHED"
  /\ op.pkt.seq + op.pkt.data.len <= Sock.ack
  /\ delivered # <<>>
  /\ Kinds(evt) = <<"send">>

C3_Connect ==
  op'.name = "connect" /\ ~Has =>
    /\ LocalKey \in DOMAIN tcpSockets'
    /\ Sock'.state = "SYN_SENT"
    /\ Sock'.iss = op'.i
    /\ Sock'.seq = op'.i + 1
    /\ Kinds(evt') = <<"send">>
    /\ evt'[1].pkt.flags = {"syn"}
    /\ evt'[1].pkt.seq = op'.i
    /\ evt'[1].pkt.data = Empty

C3_SynAck ==
  Processing("SYN_SENT") /\ {"syn", "ack"} \subseteq op'.pkt.flags =>
    /\ Sock'.state = "ESTABLISHED"
    /\ Sock'.ack = op'.pkt.seq + 1
    /\ Sock'.seq = Sock.iss + 1
    /\ Kinds(evt') = <<"send">>
    /\ IsBareAck(evt'[1].pkt, Sock')
    /\ Sock'.tick

C3_Later ==
  \A n \in 1..Len(evt') : evt'[n].k = "established" => op'.name = "tick" /\ Sock.tick

\* C3: connect() registers the socket, leaves it in SYN_SENT with seq one above
\* its initial seq, and sends one SYN carrying the initial seq; a SYN+ACK
\* processed in SYN_SENT leaves the socket ESTABLISHED with ack = packet.seq + 1
\* and sends one bare ACK with seq = initial seq + 1; the established
\* callbacks run in no handler but the posted tick.
C3_ClientHandshake == [][C3_Connect /\ C3_SynAck /\ C3_Later]_vars

\* The SYN+ACK has just been processed by a client: the socket is ESTABLISHED,
\* its ACK is out and the tick of the established callbacks is posted.
C3_Connected ==
  /\ op.name = "frame"
  /\ {"syn", "ack"} \subseteq op.pkt.flags
  /\ Has
  /\ ~Sock.isServer
  /\ Sock.state = "ESTABLISHED"
  /\ Sock.ack = op.pkt.seq + 1
  /\ Sock.tick
  /\ Kinds(evt) = <<"send">>

\* process() runs on a socket in LISTEN: one that listenExact registered, or
\* one the handler constructs for the listener of the packet's destination.
ProcessingInListen ==
  /\ op'.name = "frame"
  /\ "fin" \notin op'.pkt.flags
  /\ IF Has THEN Sock.state = "LISTEN"
     ELSE <<op'.pkt.destIp, op'.pkt.destPort>> \in DOMAIN listeners

C4_Syn ==
  ProcessingInListen /\ "syn" \in op'.pkt.flags =>
    LET before == IF Has THEN Sock.seq ELSE Sock'.iss
        sent == SendEvts(evt')
    IN /\ Sock'.state = "SYN_RECEIVED"
       /\ Sock'.ack = op'.pkt.seq + 1
       /\ Sock'.seq = before + 1
       /\ Len(sent) = 1
       /\ sent[1].pkt.flags = {"syn", "ack"}
       /\ sent[1].pkt.seq = before
       /\ sent[1].pkt.ack = op'.pkt.seq + 1
       /\ sent[1].pkt.data = Empty

C4_Ack ==
  Processing("SYN_RECEIVED") /\ "ack" \in op'.pkt.flags =>
    /\ Sock'.state = "ESTABLISHED"
    /\ Sock'.tick
    /\ evt' = <<>>
    /\ Sock'.seq = Sock.seq
    /\ Sock'.ack = Sock.ack

C4_NextTick ==
  /\ op'.name = "frame" => \A n \in 1..Len(evt') : evt'[n].k # "established"
  /\ op'.name = "tick" => evt' # <<>> /\ evt'[Len(evt')].k = "established"

\* C4: a SYN processed in LISTEN leaves the socket in SYN_RECEIVED with
\* ack = packet.seq + 1 and seq one above what it was, and sends one SYN+ACK
\* carrying the seq it had; a packet with the ACK flag processed in
\* SYN_RECEIVED leaves the socket ESTABLISHED and only posts the tick: no
\* handler of a frame runs the established callbacks, the tick does.
C4_ServerHandshake == [][C4_Syn /\ C4_Ack /\ C4_NextTick]_vars

\* The peer's ACK has just completed the handshake of a server socket; the
\* tick of the established callbacks is posted and has not run.
C4_Accepted ==
  /\ op.name = "frame"
  /\ op.pkt.flags = {"ack"}
  /\ Has
  /\ Sock.isServer
  /\ Sock.state = "ESTABLISHED"
  /\ Sock.tick
  /\ evt = <<>>

\* The closure of _sendPacket for packet pkt, if it is still waiting.
TasksOf(s, pkt) == {t \in s.tasks : t.pkt.id = pkt.id}

\* The wait of a closure ends while its packet, one that expects an ack, is
\* still unacknowledged.
TimerOfUnacked ==
  /\ op'.name = "timer"
  /\ ~NoAckExpected(op'.pkt)
  /\ Includes(Sock.sentUnacked, op'.pkt)

C5_Counted ==
  Has => \A t \in Sock.tasks : t.tx = t.i /\ t.i >= 1 /\ t.i <= 10

C5_Retry ==
  TimerOfUnacked /\ op'.i < 10 =>
    /\ Kinds(evt') = <<"send">>
    /\ evt'[1].pkt = op'.pkt
    /\ Sock'.state = Sock.state
    /\ TasksOf(Sock', op'.pkt) = {[pkt |-> op'.pkt, i |-> op'.i + 1, tx |-> op'.i + 1]}

C5_GiveUp ==
  TimerOfUnacked /\ op'.i >= 10 =>
    /\ TasksOf(Sock, op'.pkt) = {[pkt |-> op'.pkt, i |-> 10, tx |-> 10]}
    /\ Kinds(evt') = <<"close">>
    /\ Sock'.state = "CLOSED"
    /\ TasksOf(Sock', op'.pkt) = {}

C5_NoError ==
  \/ op'.name \in {"timer", "write"}
  \/ op'.name = "connect" /\ ~Has
  => \A n \in 1..Len(evt') : evt'[n].k # "throw"

\* C5: a packet that expects an ack (a SYN, a FIN, data) and is never
\* acknowledged is handed to the send callback once when it is sent and once
\* at each of the first nine ends of its wait, ten times in all; at the end of
\* the wait after the tenth the socket goes to CLOSED and the close callbacks
\* run; neither connect(), write() nor the closure throws.
C5_TenTransmissions == []C5_Counted /\ [][C5_Retry /\ C5_GiveUp /\ C5_NoError]_vars

\* The wait after the tenth transmission of a data segment has ended and the
\* socket has been closed.
C5_GaveUp ==
  /\ op.name = "timer"
  /\ op.i = 10
  /\ op.pkt.data.len > 0
  /\ Has
  /\ Sock.state = "CLOSED"
  /\ Kinds(evt) = <<"close">>

C6_Retired ==
  Processing("ESTABLISHED") /\ "ack" \in op'.pkt.flags =>
    \A n \in 1..Len(Sock.sentUnacked) :
      LET q == Sock.sentUnacked[n]
      IN q.data.len > 0 /\ q.seq + q.data.len = op'.pkt.ack =>
           ~Includes(Sock'.sentUnacked, q)

C6_Quiet ==
  /\ op'.name = "timer"
  /\ op'.pkt.data.len > 0
  /\ ~Includes(Sock.sentUnacked, op'.pkt)
  => /\ evt' = <<>>
     /\ Sock'.state = Sock.state
     /\ TasksOf(Sock', op'.pkt) = {}

\* C6: a peer packet whose ack number is seq + length of a data segment the
\* ESTABLISHED socket has sent takes the segment off the unacknowledged list,
\* and the closure of a segment that is off the list when its wait ends sends
\* nothing, ends, and leaves the socket's state as it is.
C6_AckedNotResent == [][C6_Retired /\ C6_Quiet]_vars

\* The first wait of a data segment has ended after the peer acknowledged it:
\* nothing was sent and the socket is ESTABLISHED.
C6_AckedInTime ==
  /\ op.name = "timer"
  /\ op.i = 1
  /\ op.pkt.data.len > 0
  /\ Has
  /\ Sock.state = "ESTABLISHED"
  /\ ~Includes(Sock.sentUnacked, op.pkt)
  /\ evt = <<>>

\* C10: once the socket is CLOSED no handler hands a packet to the send
\* callback.
C10_SilentOnceClosed ==
  [][Has /\ Sock.state = "CLOSED" => SendEvts(evt') = <<>>]_vars

\* C7: write() of n > 0 bytes on an ESTABLISHED socket sends ceil(n / 1200)
\* segments and nothing else; segment j (from 0) has the ACK flag only,
\* seq = s0 + 1200 j, the socket's ack, and bytes 1200 j .. min(1200 (j + 1), n) - 1
\* of the buffer, so all but the last carry 1200 bytes; seq ends at s0 + n.
C7_Segmentation ==
  [][op'.name = "write" /\ Has /\ Sock.state = "ESTABLISHED" /\ op'.data.len > 0 =>
       LET n == op'.data.len
           k == (n + 1199) \div 1200
       IN /\ Len(evt') = k
          /\ \A j \in 0..(k - 1) :
               /\ evt'[j + 1].k = "send"
               /\ evt'[j + 1].pkt.flags = {"ack"}
               /\ evt'[j + 1].pkt.seq = Sock.seq + 1200 * j
               /\ evt'[j + 1].pkt.ack = Sock.ack
               /\ evt'[j + 1].pkt.data =
                    [buf |-> op'.data.buf, off |-> 1200 * j,
                     len |-> IF j < k - 1 THEN 1200 ELSE n - 1200 * (k - 1)]
          /\ Sock'.seq = Sock.seq + n
          /\ Sock'.ack = Sock.ack]_vars

\* 2500 bytes have been written to an ESTABLISHED socket and went out as
\* segments of 1200, 1200 and 100 bytes.
C7_ThreeSegments ==
  /\ op.name = "write"
  /\ op.data.len = 2500
  /\ Kinds(evt) = <<"send", "send", "send">>
  /\ evt[1].pkt.data.len = 1200
  /\ evt[2].pkt.data.len = 1200
  /\ evt[3].pkt.data.len = 100
  /\ evt[3].pkt.seq = evt[1].pkt.seq + 2400

\* The pieces of at most 1200 bytes in which a buffer goes out.
Pieces(data) ==
  [j \in 1..((data.len + 1199) \div 1200) |->
     [buf |-> data.buf, off |-> data.off + 1200 * (j - 1),
      len |-> Min(1200, data.len - 1200 * (j - 1))]]

RECURSIVE PiecesOfAll(_)
PiecesOfAll(queue) ==
  IF queue = <<>> THEN <<>> ELSE Pieces(Head(queue)) \o PiecesOfAll(Tail(queue))

\* The payloads of the packets a handler sent, in order.
SentData(evts) == [n \in 1..Len(SendEvts(evts)) |-> SendEvts(evts)[n].pkt.data]

C8_Buffers ==
  op'.name = "write" /\ Has /\ Sock.state # "ESTABLISHED" =>
    /\ evt' = <<>>
    /\ Sock'.writeOnce = Append(Sock.writeOnce, op'.data)
    /\ Sock'.seq = Sock.seq

C8_Drains ==
  /\ SentData(evt') = PiecesOfAll(Sock.writeOnce)
  /\ Sock'.writeOnce = <<>>

C11_DuplicateKeyRaises ==
  /\ [](\A k \in DOMAIN tcpSockets : SocketConnectionString(tcpSockets[k]) = k)
  /\ [][op'.name \in {"connect", "listenExact"} /\ Has =>
          /\ evt' = <<Evt("throw", NoPacket)>>
          /\ tcpSockets' = tcpSockets]_vars

\* listenExact has been refused for the 4-tuple of a socket that connect
\* registered.
C11_Refused ==
  /\ op.name = "listenExact"
  /\ evt = <<Evt("throw", NoPacket)>>
  /\ Has
  /\ ~Sock.isServer

\* The connection key onProcessFrame computes for a packet.
KeyOfPacket(p) == connectionString(p.destIp, p.srcIp, p.destPort, p.srcPort)

\* C12: a packet whose connection key is held by a CLOSED socket, arriving
\* while a listener is registered for its destination, is given to a new
\* server socket that takes the place of the CLOSED one, after the listener's
\* callback has been called.
C12_ClosedReplaced ==
  [][/\ op'.name = "frame"
     /\ KeyOfPacket(op'.pkt) \in DOMAIN tcpSockets
     /\ tcpSockets[KeyOfPacket(op'.pkt)].state = "CLOSED"
     /\ <<op'.pkt.destIp, op'.pkt.destPort>> \in DOMAIN listeners
     => /\ evt' # <<>>
        /\ evt'[1].k = "accept"
        /\ tcpSockets'[KeyOfPacket(op'.pkt)].isServer
        /\ tcpSockets'[KeyOfPacket(op'.pkt)].state # "CLOSED"]_vars

C13_First ==
  op'.name = "listen" =>
    IF <<LocalIp, LocalPort>> \in DOMAIN listeners
    THEN evt' = <<Evt("throw", NoPacket)>> /\ listeners' = listeners
    ELSE evt' = <<>> /\ listeners' = Put(listeners, <<LocalIp, LocalPort>>, op'.i)

C13_Stays ==
  \A k \in DOMAIN listeners : k \in DOMAIN listeners' /\ listeners'[k] = listeners[k]

C13_Invoked ==
  \A n \in 1..Len(evt') :
    evt'[n].k = "accept" =>
      /\ <<op'.pkt.destIp, op'.pkt.destPort>> \in DOMAIN listeners
      /\ evt'[n].pkt.id = listeners[<<op'.pkt.destIp, op'.pkt.destPort>>]

\* C13: tcp.listen on a pair that has no listener registers the callback; on a
\* pair that has one it throws and changes nothing; a registered callback is
\* never replaced, and it is the one called for a new connection to the pair.
C13_OneListener == [][C13_First /\ C13_Stays /\ C13_Invoked]_vars

\* A second listen, with another callback, has been refused.
C13_SecondRefused ==
  /\ op.name = "listen"
  /\ evt = <<Evt("throw", NoPacket)>>
  /\ <<LocalIp, LocalPort>> \in DOMAIN listeners
  /\ listeners[<<LocalIp, LocalPort>>] # op.i

\* The packet p belongs to the connection of the socket s.
SameConnection(s, p) ==
  /\ s.srcIp = p.destIp
  /\ s.srcPort = p.destPort
  /\ s.destIp = p.srcIp
  /\ s.destPort = p.srcPort

C14_Delivered ==
  op'.name = "frame" =>
    \A k \in DOMAIN tcpSockets :
      IF SameConnection(tcpSockets[k], op'.pkt)
      THEN tcpSockets[k].state # "CLOSED" =>
             /\ k = KeyOfPacket(op'.pkt)
             /\ DOMAIN tcpSockets' = DOMAIN tcpSockets
             /\ \A n \in 1..Len(evt') : evt'[n].k # "accept"
             /\ tcpSockets'[k] = Settled(Process(tcpSockets[k], op'.pkt))
      ELSE k \in DOMAIN tcpSockets' /\ tcpSockets'[k] = tcpSockets[k]

C14_Accepted ==
  op'.name = "frame" /\ evt' # <<>> /\ evt'[1].k = "accept" =>
    LET k == KeyOfPacket(op'.pkt)
    IN /\ k \notin DOMAIN tcpSockets
       /\ DOMAIN tcpSockets' = DOMAIN tcpSockets \cup {k}
       /\ tcpSockets'[k].isServer
       /\ SameConnection(tcpSockets'[k], op'.pkt)
       /\ SocketConnectionString(tcpSockets'[k]) = k

\* C14: the socket the handler constructs for a listener is stored under the
\* key the handler computes for the packets of its connection: a packet is
\* processed by the registered socket of its own 4-tuple while that socket is
\* not CLOSED, no socket is constructed for it, and the sockets of other
\* connections are left as they are.
C14_KeySymmetry == [][C14_Delivered /\ C14_Accepted]_vars

\* Two connections to the listener from two ports of the peer; the ACK of the
\* second has been processed by the socket accepted for the second.
C14_TwoConnections ==
  /\ op.name = "frame"
  /\ op.pkt.srcPort = OtherPort
  /\ op.pkt.flags = {"ack"}
  /\ DOMAIN tcpSockets = {KeyOf(RemotePort), KeyOf(OtherPort)}
  /\ tcpSockets[KeyOf(OtherPort)].isServer
  /\ tcpSockets[KeyOf(OtherPort)].state = "ESTABLISHED"
  /\ tcpSockets[KeyOf(RemotePort)].isServer
  /\ tcpSockets[KeyOf(RemotePort)].state = "SYN_RECEIVED"

\* --------------------------------------------------------- router claims
RouterActed == rop.name \in {"registerDevice", "getOrRegisterDevice", "dhcp"}

\* The addresses of the router's subnet a device may have.
InSubnet(r, ip) == bitAnd(r.subnetMask, ip) = subnet(r)
NetworkAddress(r) == subnet(r)
SubnetBroadcast(r) == bitOr(subnet(r), bitNot(r.subnetMask))
Assignable(r, ip) ==
  InSubnet(r, ip) /\ ip # NetworkAddress(r) /\ ip # SubnetBroadcast(r)

\* C15: after any sequence of registerDevice, getOrRegisterDevice and DHCP
\* messages no two distinct MAC addresses have devices with the same IP, and
\* the IP of every device lies in the router's subnet and is neither the
\* network address nor the all-ones broadcast address of the subnet.
C15_UniqueInSubnet ==
  /\ \A m1 \in DOMAIN router.devices : \A m2 \in DOMAIN router.devices :
       m1 # m2 => router.devices[m1].ip # router.devices[m2].ip
  /\ \A m \in DOMAIN router.devices : Assignable(router, router.devices[m].ip)
  /\ RouterActed /\ rop.device # NoDevice =>
       /\ Assignable(router, rop.device.ip)
       /\ \A m \in DOMAIN router.devices :
            m # rop.device.mac => router.devices[m].ip # rop.device.ip

\* Both clients have an address, the second of them by a DHCP message that
\* was answered.
C15_TwoClients ==
  /\ ClientMacs \subseteq DOMAIN router.devices
  /\ rop.name = "dhcp"
  /\ rop.sent # <<>>
  /\ rop.sent[1].yourIpAddress = <<192, 168, 0, 2>>

\* C16: after any sequence of registerDevice, getOrRegisterDevice and DHCP
\* messages the ip->mac table and the mac->Device table agree: the device
\* stored for the MAC of an entry ip->mac has that ip, the ip of every stored
\* device maps back to its MAC, and getDevice(ip).ip = ip where it is defined.
C16_TablesConsistent ==
  /\ \A int \in DOMAIN router.addressTable :
       /\ router.addressTable[int] \in DOMAIN router.devices
       /\ toInt(router.devices[router.addressTable[int]].ip) = int
       /\ getDeviceByIp(router, fromInt(int)).ip = fromInt(int)
  /\ \A mac \in DOMAIN router.devices :
       /\ toInt(router.devices[mac].ip) \in DOMAIN router.addressTable
       /\ router.addressTable[toInt(router.devices[mac].ip)] = mac

\* getOrRegisterDevice(mac) has just returned a device, to its caller or to
\* the DHCP responder, and it had returned one for mac before.
SecondGet ==
  /\ rop'.name \in {"getOrRegisterDevice", "dhcp"}
  /\ rop'.device # NoDevice
  /\ rop'.mac \in DOMAIN returned

\* C17: getOrRegisterDevice(mac) is idempotent: a second call returns the
\* device the first call returned, with the same IP, and allocates no further
\* IP, whatever registrations happen between the two.
C17_Idempotent ==
  [][SecondGet =>
       /\ rop'.device.id = returned[rop'.mac].id
       /\ rop'.device.ip = returned[rop'.mac].ip
       /\ router'.addressTable = router.addressTable]_vars

\* getDevice(router MAC) and getDevice(router IP) return the router, confirmed.
RouterIsDevice ==
  /\ getDevice(router, router.mac).id = 0
  /\ getDevice(router, router.mac).isConfirmed
  /\ getDeviceByIp(router, router.ip).id = 0
  /\ getDeviceByIp(router, router.ip).isConfirmed

\* Every device of the table is in the table after the step.
DevicesKept ==
  \A mac \in DOMAIN router.devices :
    /\ mac \in DOMAIN router'.devices
    /\ router'.devices[mac].id = router.devices[mac].id

\* C18: in every reachable state the router is a registered device, returned
\* by getDevice(router MAC) and by getDevice(router IP), and confirmed; no
\* registerDevice, getOrRegisterDevice or DHCP message removes or replaces it,
\* and no device is ever removed from the table.
C18_RouterStays == []RouterIsDevice /\ [][DevicesKept]_vars

\* With a mask of 16 or more leading ones the addresses a device may have are
\* those between the network and the broadcast address; the numbers of those
\* of them below ip:
UsableBelow(r, ip) ==
  {<<toInt(NetworkAddress(r))[1], lo>> :
     lo \in (toInt(NetworkAddress(r))[2] + 1)..(toInt(ip)[2] - 1)}

\* ip is the lowest address a device may have that r has not assigned.
LowestFree(r, ip) ==
  /\ Assignable(r, ip)
  /\ ~isIpAssigned(r, ip)
  /\ \A int \in UsableBelow(r, ip) : int \in DOMAIN r.addressTable

\* Every address a device may have is assigned.
Exhausted(r) ==
  LET network == toInt(NetworkAddress(r))
      broadcast == toInt(SubnetBroadcast(r))
  IN \A lo \in (network[2] + 1)..(broadcast[2] - 1) :
       <<network[1], lo>> \in DOMAIN r.addressTable

\* frame is a DISCOVER or a REQUEST for the responder of r.
Asks(r, frame) ==
  /\ frame # NoFrame
  /\ ~(frame.srcIp = r.ip /\ frame.srcPort = 67)
  /\ frame.destIp \in {r.ip, BroadcastAddress}
  /\ frame.destPort = 67
  /\ \E n \in 1..Len(frame.options) :
       /\ frame.options[n].code = 53
       /\ \A m \in 1..(n - 1) : frame.options[m].code # 53
       /\ frame.options[n].data[1] \in {1, 3}

\* The step is a registerDevice, or what the responder does with a DISCOVER or
\* REQUEST of a MAC the router does not know.
Allocates ==
  \/ rop'.name = "registerDevice"
  \/ rop'.name = "getOrRegisterDevice" /\ rop'.mac \notin DOMAIN router.devices
  \/ rop'.name = "dhcp" /\ Asks(router, rop'.frame) /\ rop'.mac \notin DOMAIN router.devices

\* C19: the allocation loop ends, in a number of turns bounded by the size of
\* the table; registerDevice returns the lowest unassigned address of the
\* subnet that is neither its network nor its broadcast address (192.168.0.1
\* for the first device after the router); when every such address is assigned
\* it returns nothing and leaves the tables as they are, and the responder
\* consumes the DISCOVER or REQUEST of an unknown MAC without any reply.
C19_LowestFreeOrNothing ==
  [][Allocates =>
       /\ GetNextFreeIp(router).turns <= Cardinality(DOMAIN router.addressTable) + 35
       /\ \/ /\ rop'.device # NoDevice
             /\ LowestFree(router, rop'.device.ip)
             /\ router'.addressTable = Put(router.addressTable, toInt(rop'.device.ip), rop'.mac)
             /\ router = NewRouter(AdapterOptions) => rop'.device.ip = <<192, 168, 0, 1>>
          \/ /\ rop'.device = NoDevice
             /\ Exhausted(router)
             /\ router' = router
             /\ rop'.sent = <<>>
             /\ rop'.name = "dhcp" => rop'.consumed]_vars

\* Every address of the subnet is assigned, and the DISCOVER or REQUEST of a
\* MAC without a device has been consumed without a reply.
C19_Dropped ==
  /\ rop.name = "dhcp"
  /\ Asks(router, rop.frame)
  /\ rop.mac \notin DOMAIN router.devices
  /\ Exhausted(router)
  /\ rop.consumed
  /\ rop.sent = <<>>

\* The message type of a frame that Asks.
TypeAsked(frame) == frame.options[FindOption(frame.options, 53)].data[1]

\* The responder has been given a DISCOVER or REQUEST of a client for which
\* the router has, or can allocate, an address.
Answerable ==
  /\ rop'.name = "dhcp"
  /\ Asks(router, rop'.frame)
  /\ rop'.mac \in ClientMacs
  /\ rop'.mac \in DOMAIN router.devices \/ ~Exhausted(router)

\* One reply, of the type that answers the message, with the xid and the
\* client hardware address of the message and the address of the client.
Answered ==
  /\ rop'.consumed
  /\ Len(rop'.sent) = 1
  /\ rop'.sent[1].options[1] = Option(53, <<IF TypeAsked(rop'.frame) = 1 THEN 2 ELSE 5>>)
  /\ rop'.sent[1].xid = rop'.frame.xid
  /\ rop'.sent[1].clientHardwareAddress = rop'.frame.clientHardwareAddress
  /\ rop'.sent[1].yourIpAddress = returned'[rop'.mac].ip
  /\ rop'.sent[1].yourIpAddress = getDevice(router', rop'.mac).ip

\* The confirmed flag after the message: set by a REQUEST, not by the DISCOVER
\* that registers the device.
ConfirmedByRequest ==
  /\ TypeAsked(rop'.frame) = 3 => getDevice(router', rop'.mac).isConfirmed
  /\ TypeAsked(rop'.frame) = 1 /\ rop'.mac \notin DOMAIN router.devices =>
       ~getDevice(router', rop'.mac).isConfirmed

\* A client's device that is confirmed is confirmed after the step.
StaysConfirmed ==
  \A mac \in ClientMacs :
    getDevice(router, mac).isConfirmed => getDevice(router', mac).isConfirmed

\* A frame of the router itself is consumed, and nothing is sent or changed.
OwnConsumed ==
  rop'.name = "dhcp" /\ rop'.frame.srcIp = router.ip /\ rop'.frame.srcPort = 67 =>
    rop'.consumed /\ rop'.sent = <<>> /\ router' = router

\* C20: a DISCOVER sent to port 67 from a client MAC is answered with one OFFER
\* (option 53 = 2) and a REQUEST with one ACK (option 53 = 5); the replies echo
\* the xid and the client hardware address and carry the same yourIpAddress,
\* the address allocated to that MAC; the device is not confirmed after the
\* DISCOVER alone and is confirmed once a REQUEST from its MAC has been
\* processed; the router's own replies are consumed without a further reply.
C20_Exchange ==
  [][/\ Answerable => Answered /\ ConfirmedByRequest
     /\ StaysConfirmed
     /\ OwnConsumed]_vars

\* ------------------------------------------------------------- FIN and ACK
\* The states in which a registered socket is handed the peer's packets.
Receiving == {"LISTEN", "SYN_SENT", "SYN_RECEIVED", "ESTABLISHED"}

\* The connection string under which the handler looks up the socket of an
\* inbound packet.
KeyFor(tcpPacket) ==
  connectionString(tcpPacket.destIp, tcpPacket.srcIp, tcpPacket.destPort, tcpPacket.srcPort)

\* The running handler is process() of a FIN.
FinArrives == op'.name = "frame" /\ "fin" \in op'.pkt.flags

C26_Registered ==
  FinArrives /\ KeyFor(op'.pkt) \in DOMAIN tcpSockets
             /\ tcpSockets[KeyFor(op'.pkt)].state \in Receiving =>
    LET s == tcpSockets[KeyFor(op'.pkt)]
        t == tcpSockets'[KeyFor(op'.pkt)]
    IN /\ t.state = "CLOSED"
       /\ Kinds(evt') = <<"close">>
       /\ t.sentUnacked = s.sentUnacked
       /\ t.recvQueue = s.recvQueue
       /\ t.ack = s.ack
       /\ t.seq = s.seq
       /\ delivered' = delivered

C26_Accepted ==
  FinArrives /\ KeyFor(op'.pkt) \notin DOMAIN tcpSockets
             /\ <<op'.pkt.destIp, op'.pkt.destPort>> \in DOMAIN listeners =>
    /\ tcpSockets'[KeyFor(op'.pkt)].state = "CLOSED"
    /\ Kinds(evt') = <<"accept", "close">>
    /\ delivered' = delivered

\* C26: a packet with the FIN flag that reaches a registered socket in
\* LISTEN, SYN_SENT, SYN_RECEIVED or ESTABLISHED (or the LISTEN socket a
\* listener has just made for it) closes the socket in the same handler and
\* fires close; nothing is sent, nothing is delivered, and the unacknowledged
\* list, the receive queue, seq and ack stay as they were.
C26_FinCloses == [][C26_Registered /\ C26_Accepted]_vars

\* A FIN with data, whose ack number covers a packet of the unacknowledged
\* list, has closed the socket: the packet is still listed.
C26_FinWithDataClosed ==
  /\ op.name = "frame"
  /\ "fin" \in op.pkt.flags
  /\ op.pkt.data.len > 0
  /\ KeyFor(op.pkt) \in DOMAIN tcpSockets
  /\ tcpSockets[KeyFor(op.pkt)].state = "CLOSED"
  /\ Kinds(evt) = <<"close">>
  /\ \E n \in 1..Len(tcpSockets[KeyFor(op.pkt)].sentUnacked) :
       ~StillUnacked(tcpSockets[KeyFor(op.pkt)].sentUnacked[n], op.pkt.ack)

\* The running handler is process() of a packet with the ACK flag and no FIN,
\* on the socket in whatever state it is.
AckArrives == Processing(Sock.state) /\ "ack" \in op'.pkt.flags

\* The packets the step has handed to the send callback.
SentNow == [n \in 1..Len(SendEvts(evt')) |-> SendEvts(evt')[n].pkt]

\* The step leaves of the unacknowledged list the packets of which kept
\* holds, in their order, followed by the packets it has sent.
ListBecomes(kept(_)) == Sock'.sentUnacked = SelectSeq(Sock.sentUnacked, kept) \o SentNow

\* C28 as stated: a packet leaves the unacknowledged list only when a peer
\* packet with the ACK flag has ack > seq + data.length, and every such
\* packet leaves it then; a SYN with seq s stays listed at ack = s.
C28_OnlyStrictlyGreater ==
  [][Has /\ LocalKey \in DOMAIN tcpSockets' =>
       IF AckArrives
       THEN ListBecomes(LAMBDA q : ~(op'.pkt.ack > q.seq + q.data.len))
       ELSE ListBecomes(LAMBDA q : TRUE)]_vars

\* C28: a packet leaves the unacknowledged list only when a peer packet with
\* the ACK flag and without FIN has ack >= seq + data.length, and every
\* listed packet of which this holds leaves it then; a SYN with seq s leaves
\* it at ack = s.
C28_AtOrAbove ==
  [][Has /\ LocalKey \in DOMAIN tcpSockets' =>
       IF AckArrives
       THEN ListBecomes(LAMBDA q : ~(op'.pkt.ack >= q.seq + q.data.len))
       ELSE ListBecomes(LAMBDA q : TRUE)]_vars

\* A peer ACK whose ack number is the seq of the socket's SYN has emptied the
\* unacknowledged list of the socket, which is still in SYN_SENT.
C28_SynRetiredAtItsSeq ==
  /\ op.name = "frame"
  /\ op.pkt.flags = {"ack"}
  /\ Has
  /\ Sock.state = "SYN_SENT"
  /\ op.pkt.ack = Sock.iss
  /\ Sock.sentUnacked = <<>>

\* ------------------------------------------------------------------ LISTEN
\* The running handler is process() of a packet without FIN on a socket in
\* LISTEN: one of listenExact, or one a listener has just made for the packet.
ListenArrives ==
  /\ op'.name = "frame"
  /\ "fin" \notin op'.pkt.flags
  /\ KeyFor(op'.pkt) = LocalKey
  /\ \/ Has /\ Sock.state = "LISTEN"
     \/ ~Has /\ <<op'.pkt.destIp, op'.pkt.destPort>> \in DOMAIN listeners

\* The socket has answered the packet with one SYN+ACK and is in SYN_RECEIVED.
Answers ==
  /\ Sock'.state = "SYN_RECEIVED"
  /\ Sock'.ack = op'.pkt.seq + 1
  /\ Len(SentNow) = 1
  /\ SentNow[1].flags = {"syn", "ack"}
  /\ SentNow[1].ack = op'.pkt.seq + 1

\* The socket is in LISTEN as before and has sent nothing.
StaysListening ==
  /\ Sock'.state = "LISTEN"
  /\ SentNow = <<>>
  /\ Sock'.sentUnacked = <<>>

\* C29 as stated: a socket in LISTEN answers every packet addressed to it,
\* with or without the SYN flag, by a SYN+ACK and goes to SYN_RECEIVED.
C29_AnyPacketAnswered == [][ListenArrives => Answers]_vars

\* C29: a socket in LISTEN goes to SYN_RECEIVED and sends a SYN+ACK when the
\* packet addressed to it has the SYN flag; a packet without the SYN flag
\* (and without FIN) leaves it in LISTEN and nothing is sent.
C29_SynChecked ==
  [][ListenArrives => IF "syn" \in op'.pkt.flags THEN Answers ELSE StaysListening]_vars

\* A packet with the ACK flag only has reached the socket, which is in LISTEN
\* and has sent nothing.
C29_AckLeftListening ==
  /\ op.name = "frame"
  /\ op.pkt.flags = {"ack"}
  /\ Has
  /\ Sock.state = "LISTEN"
  /\ evt = <<>>

\* --------------------------------------------------------------------- ARP
\* The MACs of the registered devices to which the address table gives ip.
Owners(r, ip) ==
  {mac \in DOMAIN r.devices : toInt(ip) \in DOMAIN r.addressTable /\ r.addressTable[toInt(ip)] = mac}

\* The one reply to frame, which says that queriedIp is at mac.
RepliedWith(frame, mac) ==
  /\ Len(rop.sent) = 1
  /\ rop.sent[1].operation = 2
  /\ rop.sent[1].srcMac = router.mac
  /\ rop.sent[1].destMac = frame.srcMac
  /\ rop.sent[1].queriedMac = mac
  /\ rop.sent[1].queriedIp = frame.queriedIp

Dispatched == aop.name \in {"receive", "send", "socketSend"} /\ ~aop.raised

\* The places of the trace at which a callback of a processData target (or
\* of _onReceiveCallbacks) has returned.
Hooks == {i \in 1..Len(aop.trace) : aop.trace[i].k = "hook" /\ aop.trace[i].at[2] = "processData"}

\* Two places of the trace belong to one emit.
SameEmit(i, j) == aop.trace[i].at = aop.trace[j].at /\ aop.trace[i].e = aop.trace[j].e

\* The callbacks of one emit return in the order of their registration.
InRegistrationOrder ==
  \A i \in Hooks : \A j \in Hooks : SameEmit(i, j) /\ i < j => aop.trace[i].n < aop.trace[j].n

\* C22 as stated: the callbacks are called in registration order and none is
\* called after one that returned consumed: true.
C22_StopsAtFirstConsumer ==
  Dispatched =>
    /\ InRegistrationOrder
    /\ \A i \in Hooks : \A j \in Hooks : SameEmit(i, j) /\ i < j => ~aop.trace[i].consumed

\* C22: dispatch at one layer calls every callback registered on the layer's
\* target, in registration order, whatever the callbacks before it have
\* returned: the ones registered after the first consumer are called too.
C22_EveryHookCalled ==
  Dispatched =>
    /\ InRegistrationOrder
    /\ \A i \in Hooks :
         \A n \in 1..Len(ListenersAt(adapter, aop.trace[i].at)) :
           \E j \in Hooks : /\ SameEmit(i, j)
                            /\ aop.trace[j].n = n
                            /\ aop.trace[j].listener = ListenersAt(adapter, aop.trace[i].at)[n]

\* An ARP frame from the bus has been consumed by Arp, and the callbacks of
\* Ipv4 and of the IPv6 stub, registered after Arp's, have been called with it.
C22_CalledAfterConsumer ==
  /\ aop.name = "receive"
  /\ ~aop.raised
  /\ aop.frame.etherType = 2054
  /\ \E i \in Hooks : \E j \in Hooks :
       /\ SameEmit(i, j)
       /\ i < j
       /\ aop.trace[i].at = <<"ethernet", "processData">>
       /\ aop.trace[i].consumed
       /\ aop.trace[i].listener = Listener("decoder", "arp", 0)
       /\ aop.trace[j].listener = Listener("decoder", "ipv4", 0)

\* C23: whatever bytes the bus delivers to an adapter that is not destroyed,
\* complete or cut short, right or wrong, onReceive returns without raising
\* an error to the bus, and the adapter's callbacks and the router's tables
\* are as before.
C23_NeverRaised ==
  [][aop'.name = "receive" /\ ~adapter.isDestroyed =>
       /\ ~aop'.raised
       /\ adapter' = adapter
       /\ router' = router]_vars

\* The places of the trace of the kind k.
Places(k) == {i \in 1..Len(aop.trace) : aop.trace[i].k = k}

\* The places at which Ethernet's onSendData callback has returned: the
\* frames the protocols have emitted.
Emitted ==
  {i \in Places("hook") : aop.trace[i].listener = Listener("send", "ethernet", 0)}

\* C24: a frame is written to the bus only by send(), each time once and
\* followed at once by its one onReceive; onReceive runs on nothing but the
\* frame the bus has delivered and the frames just written; and an operation
\* that returns has written as many frames as the protocols (and the caller
\* of send) have emitted.
C24_BusThenLoopback ==
  aop.name \in {"receive", "send", "socketSend"} =>
    /\ \A i \in Places("bus") :
         i < Len(aop.trace) /\ aop.trace[i + 1] = OfferEvent(aop.trace[i].frame)
    /\ \A j \in Places("offer") :
         IF j = 1 THEN aop.name = "receive" /\ aop.trace[j].frame = aop.frame
         ELSE aop.trace[j - 1] = BusEvent(aop.trace[j].frame)
    /\ aop.name = "send" /\ aop.trace # <<>> => aop.trace[1] = BusEvent(aop.frame)
    /\ ~aop.raised =>
         Cardinality(Places("bus")) = Cardinality(Emitted) + (IF aop.name = "send" THEN 1 ELSE 0)

\* The bus has delivered an ARP request; the router's reply has been written
\* to the bus and then given to onReceive, and the request has not been
\* written.
C24_ReplyLoopedBack ==
  /\ aop.name = "receive"
  /\ ~aop.raised
  /\ Cardinality(Places("bus")) = 1
  /\ \E i \in Places("bus") :
       /\ aop.trace[i].frame.srcMac = RouterMac
       /\ aop.trace[i].frame # aop.frame
       /\ aop.trace[i + 1] = OfferEvent(aop.trace[i].frame)

\* The operations of NetworkAdapter that begin with checkNotDestroyed.
AdapterOperations == {"receive", "send", "startCapture", "destroy", "ethernet", "router"}

\* C25: once destroy() has returned, every operation of the adapter raises,
\* the callback lists of the adapter and of the four targets of every layer
\* are empty and stay so, and nothing writes a frame to the bus: not the
\* adapter's operations and not the send callback of a socket made before.
C25_UseAfterDestroy ==
  [][adapter.isDestroyed /\ aop' # aop =>
       /\ aop'.name \in AdapterOperations => aop'.raised
       /\ \A i \in 1..Len(aop'.trace) : aop'.trace[i].k # "bus"
       /\ adapter' = adapter
       /\ adapter.onReceiveCallbacks = <<>>
       /\ \A t \in DOMAIN adapter.targets : adapter.targets[t] = <<>>]_vars

\* After destroy() the send callback of a socket made before has run with a
\* SYN for the address of a registered device: it has returned without an
\* error and without a frame.
C25_TimerAfterDestroy ==
  /\ adapter.isDestroyed
  /\ aop.name = "socketSend"
  /\ ~aop.raised
  /\ aop.trace = <<>>
  /\ getDeviceByIp(router, <<192, 168, 0, 1>>) # NoDevice

\* ------------------------------------------------------------------- ping
\* The operation that has just run has given onReceive an echo reply of code
\* 0 with a right checksum whose identifier and sequence number are those of
\* the request ping() sends for pingId.
ReplyArrives(pingId) ==
  \E i \in 1..Len(aop'.trace) :
    /\ aop'.trace[i].k = "offer"
    /\ aop'.trace[i].frame.etherType = 2048
    /\ aop'.trace[i].frame.payload.protocol = 1
    /\ aop'.trace[i].frame.payload.payload =
         IcmpBytes(0, 0, TRUE, toBigEndianFromInt2(ShiftRight16(pingId)), Low16(pingId), Empty)

\* The state of the n-th future before the step; one that ping() returns in
\* the step starts pending.
SettledBefore(n) == IF n <= Len(adapter.pings) THEN adapter.pings[n].settled ELSE "pending"

\* C27: a future of ping() whose request has been sent resolves in the very
\* operation that gives onReceive an echo reply with its identifier and
\* sequence number, and in no other; once it has resolved its key is no
\* longer in outstandingPings.
C27_ResolvesOnItsReply ==
  [][aop' # aop =>
       \A n \in 1..Len(adapter'.pings) :
         SettledBefore(n) = "pending" /\ adapter'.pings[n].settled # "rejected" =>
           /\ adapter'.pings[n].settled = "resolved" <=> ReplyArrives(adapter'.pings[n].pingId)
           /\ adapter'.pings[n].settled = "resolved" =>
                adapter'.pings[n].pingId \notin DOMAIN adapter'.outstandingPings]_vars


\* ------------------------------------------------- unresolvable destination
\* The router has no device for the address of the peer.
Unresolvable == getDeviceByIp(router, Ipv4AddressOf(RemoteIp)) = NoDevice

\* connect() makes the socket; write() runs on the established socket.
ConnectRuns == ~Has /\ op'.name = "connect" /\ LocalKey \in DOMAIN tcpSockets'
WriteRuns == Has /\ Sock.state = "ESTABLISHED" /\ op'.name = "write" /\ nWrites' = nWrites + 1

\* The socket is in SYN_SENT with its SYN unacknowledged and no closure of
\* _sendPacket left to send it again or to give up.
DeadLoop(s) == s.state = "SYN_SENT" /\ s.sentUnacked # <<>> /\ s.tasks = {}

\* C30: a connect() and a write() on an established socket whose
\* destination has no device throw to their caller, write nothing to the bus,
\* and do not leave the socket in SYN_SENT without a retransmission loop.
C30_UnresolvableIsRaised ==
  [][Unresolvable /\ (ConnectRuns \/ WriteRuns) =>
       /\ "throw" \in {evt'[n].k : n \in 1..Len(evt')}
       /\ \A i \in 1..Len(aop'.trace) : aop'.trace[i].k # "bus"
       /\ ~DeadLoop(Sock')]_vars

\* C31 (as stated): appending the complement of internetChecksum(B) to B gives
\* a sequence whose internetChecksum is 0xFFFF, for B of even and of odd
\* length.
C31_ComplementGivesAllOnes ==
  calc.name = "internetChecksum" => calc.output[2] = 65535

\* C31: appending the complement of internetChecksum(B) to a B of even length
\* gives a sequence whose internetChecksum is 0xFFFF. (Behind a B of odd
\* length the first byte of the complement has an odd index and counts once,
\* the second 256 times.)
C31_ComplementGivesAllOnesIfEven ==
  calc.name = "internetChecksum" /\ Len(calc.input) % 2 = 0 => calc.output[2] = 65535

\* A sequence of four bytes whose sum has a carry to fold, with its complement
\* behind it.
C31_FoldedEven ==
  /\ calc.name = "internetChecksum"
  /\ Len(calc.input) = 4
  /\ SumBytes(calc.input, 1, 0) > 65535
  /\ calc.output[2] = 65535

\* ------------------------------------------------ in-order packets and ACKs
\* process() of a packet whose seq is the ack number of an ESTABLISHED socket
\* that has no write waiting for the established callbacks.
InOrderArrives ==
  /\ Processing("ESTABLISHED")
  /\ op'.pkt.seq = Sock.ack
  /\ Len(Sock.writeOnce) = 0

\* C32 (as stated): every in-order packet, also one without data, advances
\* ack by its data length and has a bare ACK with the current seq and ack
\* sent after the queue is drained.
C32_EveryInOrderPacketAcked ==
  [][InOrderArrives =>
       /\ Sock'.ack >= Sock.ack + op'.pkt.data.len
       /\ Len(SendEvts(evt')) = 1
       /\ evt'[Len(evt')].k = "send"
       /\ IsBareAck(evt'[Len(evt')].pkt, Sock')]_vars

\* C32: an in-order packet advances ack by its data length; one with data is
\* given to onData first and one bare ACK with the seq and ack of the socket
\* is sent after the queue is drained; one without data is not given to
\* onData and no packet is sent for it.
C32_InOrderAckedIfData ==
  [][InOrderArrives =>
       IF op'.pkt.data.len > 0
       THEN /\ Sock'.ack >= Sock.ack + op'.pkt.data.len
            /\ evt'[1] = Evt("data", op'.pkt)
            /\ Len(SendEvts(evt')) = 1
            /\ evt'[Len(evt')].k = "send"
            /\ IsBareAck(evt'[Len(evt')].pkt, Sock')
       ELSE /\ Sock'.ack = Sock.ack
            /\ evt' = <<>>
            /\ delivered' = delivered]_vars

\* A packet without data has arrived in order, after data was delivered, and
\* nothing was sent.
C32_BareInOrderUnanswered ==
  /\ op.name = "frame"
  /\ Has
  /\ Sock.state = "ESTABLISHED"
  /\ op.pkt.flags = {"ack"}
  /\ op.pkt.data.len = 0
  /\ op.pkt.seq = Sock.ack
  /\ delivered # <<>>
  /\ evt = <<>>

\* The close callbacks ran in the handler that just ended.
CloseCallbacks(evts) == SelectSeq(evts, LAMBDA e: e.k = "close")

\* C33: the close callbacks of a socket run at most once: a handler runs them
\* at most once, and no handler runs them on a socket that is CLOSED already
\* (a registered socket is CLOSED only after close() ran on it).
C33_ClosedOnce ==
  [][/\ Len(CloseCallbacks(evt')) <= 1
     /\ Has /\ Sock.state = "CLOSED" => CloseCallbacks(evt') = <<>>]_vars

\* C34: the bytes of write() calls are emitted in the order of the calls: a
\* write() hands segments to the send callback only if no earlier buffer still
\* waits in _writeOnceEstablished.
C34_WritesInCallOrder ==
  [][op'.name = "write" /\ Has /\ SendEvts(evt') # <<>> => Sock.writeOnce = <<>>]_vars

\* C35: the assertion of the ESTABLISHED case never fires: whenever process()
\* takes a packet that is not a FIN on an ESTABLISHED socket,
\* _writeOnceEstablished is empty.
C35_QueueEmptyWhenProcessing ==
  [][Processing("ESTABLISHED") =>
       /\ Sock.writeOnce = <<>>
       /\ \A n \in 1..Len(evt') : evt'[n].k # "throw"]_vars

\* The established callbacks ran in the handler that just ended.
EstablishedCallbacks(evts) == SelectSeq(evts, LAMBDA e: e.k = "established")

\* C36: the established callbacks run once for a socket that reached
\* ESTABLISHED and only while it is ESTABLISHED: only the deferred tick runs
\* them, once, and not on a socket that was closed before the tick.
C36_EstablishedCallbacksOnlyEstablished ==
  [][/\ op'.name # "tick" => EstablishedCallbacks(evt') = <<>>
     /\ op'.name = "tick" =>
          /\ Len(EstablishedCallbacks(evt')) <= 1
          /\ ~Sock'.tick
          /\ EstablishedCallbacks(evt') # <<>> <=> Sock.state = "ESTABLISHED"]_vars

\* C37: with timers that fire, a socket in SYN_SENT reaches ESTABLISHED or
\* CLOSED, whatever the peer sends.
C37_SynSentLeaves ==
  (Has /\ Sock.state = "SYN_SENT") ~> (Has /\ Sock.state \in {"ESTABLISHED", "CLOSED"})

\* C38: every packet of a socket carries a seq and an ack that fit the 4-byte
\* header fields: the serialization does not throw and its bytes are the
\* number's.
C38_SeqAndAckEncodable ==
  calc.name = "sendPacket" =>
    \A n \in 1..2 :
      /\ ~calc.output[n].threw
      /\ calc.output[n].bytes = <<calc.input[n][1] \div 256, calc.input[n][1] % 256,
                                  calc.input[n][2] \div 256, calc.input[n][2] % 256>>

\* C39: CLOSED is absorbing: no handler changes the state of a CLOSED socket
\* or removes it, none delivers data to onData, and a write() on it hands no
\* packet to the send callback (the buffer goes to _writeOnceEstablished).
C39_ClosedAbsorbing ==
  [][Has /\ Sock.state = "CLOSED" =>
       /\ Has'
       /\ Sock'.state = "CLOSED"
       /\ delivered' = delivered
       /\ Payloads(evt') = <<>>
       /\ op'.name = "write" =>
            /\ SendEvts(evt') = <<>>
            /\ Sock'.writeOnce = Append(Sock.writeOnce, op'.data)]_vars

\* The user has written to a socket that was closed while the established
\* task was pending: the buffer waits in the queue of the CLOSED socket.
C39_WrittenWhenClosed ==
  /\ op.name = "write"
  /\ Has
  /\ Sock.state = "CLOSED"
  /\ Sock.tick
  /\ Sock.writeOnce = <<op.data>>
  /\ evt = <<>>

\* The frames an operation of the adapter wrote to the bus.
BusEvents(trace) == SelectSeq(trace, LAMBDA e: e.k = "bus")

====
